---- MODULE Spec2Model ----
(***************************************************************************)
(* Order orchestration layer of go-ordersvc: the order service             *)
(* (internal/service), the PostgreSQL order repository, the Redis order    *)
(* cache and the domain status machine, as a state machine whose steps are *)
(* the I/O round trips of the service methods.  Every request runs on its  *)
(* own task; tasks share only the orders table and the cache.              *)
(*                                                                         *)
(* Abstractions: uuids are small integers, money is in integer cents,      *)
(* timestamps are left out, infrastructure failures of PostgreSQL are not  *)
(* modelled (cache failures are).                                          *)
(***************************************************************************)
EXTENDS Integers, Sequences, FiniteSets, TLC

\* ------------------------------------------------------------------ bounds
NumOrders == 1
NumTasks == 2
MaxCalls == 4

OrderIDs == 1..NumOrders
Tasks == 1..NumTasks

\* ------------------------------------------------------------ domain model
OrderStatusPending == "pending"
OrderStatusConfirmed == "confirmed"
OrderStatusProcessing == "processing"
OrderStatusShipped == "shipped"
OrderStatusDelivered == "delivered"
OrderStatusCancelled == "cancelled"

ValidStatuses ==
  << OrderStatusPending, OrderStatusConfirmed, OrderStatusProcessing,
     OrderStatusShipped, OrderStatusDelivered, OrderStatusCancelled >>

Statuses == { ValidStatuses[i] : i \in 1..Len(ValidStatuses) }

validTransitions ==
  [ s \in Statuses |->
      CASE s = OrderStatusPending    -> << OrderStatusConfirmed, OrderStatusCancelled >>
        [] s = OrderStatusConfirmed  -> << OrderStatusProcessing, OrderStatusCancelled >>
        [] s = OrderStatusProcessing -> << OrderStatusShipped, OrderStatusCancelled >>
        [] s = OrderStatusShipped    -> << OrderStatusDelivered >>
        [] s = OrderStatusDelivered  -> << >>
        [] s = OrderStatusCancelled  -> << >> ]

CanTransitionTo_Reflexive(s, newStatus) ==
  \/ s = newStatus
  \/ \E i \in 1..Len(validTransitions[s]) : validTransitions[s][i] = newStatus

\* OrderStatus.CanTransitionTo: look the status up in the map and scan the
\* allowed list.
CanTransitionTo(s, newStatus) ==
  LET allowed == validTransitions[s]
  IN  \E i \in 1..Len(allowed) : allowed[i] = newStatus

\* errors of internal/domain/errors.go ("" is the nil error)
ErrNone == ""
ErrOrderNotFound == "order not found"
ErrInvalidCustomerID == "invalid customer ID"
ErrNoItems == "order must have at least one item"
ErrInvalidProductID == "invalid product ID"
ErrInvalidProductName == "invalid product name"
ErrInvalidQuantity == "quantity must be greater than 0"
ErrInvalidPrice == "price must be greater than 0"
ErrInvalidTransition == "invalid status transition"
ErrConcurrentModification == "order was modified by another process"

\* OrderItem.CalculateSubtotal
CalculateSubtotal(i) == i.Quantity * i.Price

\* OrderItem.Validate
ItemValidate(i) ==
  IF i.ProductID = "" THEN ErrInvalidProductID
  ELSE IF i.Name = "" THEN ErrInvalidProductName
  ELSE IF i.Quantity <= 0 THEN ErrInvalidQuantity
  ELSE IF i.Price <= 0 THEN ErrInvalidPrice
  ELSE ErrNone

RECURSIVE SumSubtotals(_)
SumSubtotals(items) ==
  IF items = << >> THEN 0
  ELSE items[1].Subtotal + SumSubtotals(Tail(items))

\* Order.CalculateTotal
CalculateTotal(items) == SumSubtotals(items)

\* the first validation error of a list of items, in list order
RECURSIVE FirstItemError(_)
FirstItemError(items) ==
  IF items = << >> THEN ErrNone
  ELSE IF ItemValidate(items[1]) # ErrNone THEN ItemValidate(items[1])
  ELSE FirstItemError(Tail(items))

\* the loop of CreateOrder / UpdateOrder that copies the DTO items and
\* fills in the subtotals (the fresh item uuids are abstracted away)
BuildItems(dtoItems) ==
  [ k \in 1..Len(dtoItems) |->
      [ ProductID |-> dtoItems[k].ProductID,
        Name      |-> dtoItems[k].Name,
        Quantity  |-> dtoItems[k].Quantity,
        Price     |-> dtoItems[k].Price,
        Subtotal  |-> CalculateSubtotal(dtoItems[k]) ] ]

\* ----------------------------------------------------------------- inputs
DtoItem(p, q, c) == [ ProductID |-> p, Name |-> p, Quantity |-> q, Price |-> c ]

\* item lists a caller supplies (prices in cents; 2 x 10.50 = 21.00): to
\* CreateOrder, and to UpdateOrder, where the empty list means "no items given"
CreateItemInputs == { << DtoItem("p1", 2, 1050) >> }
UpdateItemInputs == { << >>, << DtoItem("p1", 1, 500), DtoItem("p2", 1, 250) >> }

CustomerInputs == { "cust-1" }

\* a nil *domain.Order, and a nil *OrderStatus / absent item list of a DTO
Nil == [ nil |-> TRUE ]
NoStatus == "none"

\* ------------------------------------------------------------- persistence
\* a row of the orders table; Deleted stands for deleted_at IS NOT NULL
NoRow == [ absent |-> TRUE ]

NewOrder(id, customerID, dtoItems, now) ==
  [ ID         |-> id,
    CustomerID |-> customerID,
    Items      |-> BuildItems(dtoItems),
    Status     |-> OrderStatusPending,
    Total      |-> CalculateTotal(BuildItems(dtoItems)),
    Version    |-> 0,
    CreatedAt  |-> now,
    Deleted    |-> FALSE ]

CreatedRow_KeepVersion(order) == order

\* orderRepositoryPostgres.Create: version forced to 1, row inserted
CreatedRow(order) == [ order EXCEPT !.Version = 1 ]

\* orderRepositoryPostgres.FindByID: WHERE id = $1 AND deleted_at IS NULL;
\* no row gives (nil, nil)
FindByID(row) ==
  IF row = NoRow THEN Nil
  ELSE IF row.Deleted THEN Nil
  ELSE row

UpdateMatches_NoVersionGuard(row, order) ==
  /\ row # NoRow
  /\ ~row.Deleted

\* the WHERE clause of the UPDATE in orderRepositoryPostgres.Update
UpdateMatches(row, order) ==
  /\ row # NoRow
  /\ row.Version = order.Version
  /\ ~row.Deleted

UpdatedRow_NoVersionBump(row, order) ==
  [ row EXCEPT !.CustomerID = order.CustomerID,
               !.Items      = order.Items,
               !.Status     = order.Status,
               !.Total      = order.Total ]

\* the SET clause of the UPDATE in orderRepositoryPostgres.Update
UpdatedRow(row, order) ==
  [ row EXCEPT !.CustomerID = order.CustomerID,
               !.Items      = order.Items,
               !.Status     = order.Status,
               !.Total      = order.Total,
               !.Version    = row.Version + 1 ]

\* the table row after the UPDATE statement has run
RowAfterUpdate(row, order) ==
  IF UpdateMatches(row, order) THEN UpdatedRow(row, order) ELSE row

RowsAffected_Inverted(row, newRow) == IF newRow # row THEN 0 ELSE 1

\* result.RowsAffected() of an UPDATE on one id: 1 when the row was written
RowsAffected(row, newRow) == IF newRow # row THEN 1 ELSE 0

orderExists_LiveOnly(row) == row # NoRow /\ ~row.Deleted

\* orderRepositoryPostgres.orderExists: SELECT EXISTS(... WHERE id = $1),
\* soft-deleted rows included
orderExists(row) == row # NoRow

\* a soft delete that also matches rows already deleted
DeleteMatches_Any(row) == row # NoRow

\* the WHERE clause of the UPDATE in orderRepositoryPostgres.Delete
DeleteMatches(row) ==
  /\ row # NoRow
  /\ ~row.Deleted

\* the SET clause of the UPDATE in orderRepositoryPostgres.Delete
DeletedRow(row) ==
  [ row EXCEPT !.Deleted = TRUE, !.Version = row.Version + 1 ]

\* -------------------------------------------------------------------- cache
\* a Redis value: absent key (redis.Nil), or the JSON text of an order
NoEntry == << >>
JsonNull == << "null" >>

\* json.Marshal of a *domain.Order
Marshal(order) ==
  IF order = Nil THEN JsonNull
  ELSE << "order", order.ID, order.CustomerID, order.Items, order.Status,
          order.Total, order.Version, order.CreatedAt, order.Deleted >>

\* the zero domain.Order that json.Unmarshal leaves untouched on "null"
ZeroOrder ==
  [ ID |-> 0, CustomerID |-> "", Items |-> << >>, Status |-> "",
    Total |-> 0, Version |-> 0, CreatedAt |-> 0, Deleted |-> FALSE ]

\* json.Unmarshal into a domain.Order
Unmarshal(data) ==
  IF data = JsonNull THEN ZeroOrder
  ELSE [ ID |-> data[2], CustomerID |-> data[3], Items |-> data[4],
         Status |-> data[5], Total |-> data[6], Version |-> data[7],
         CreatedAt |-> data[8], Deleted |-> data[9] ]

\* -------------------------------------------------------------------- state
VARIABLES
  db,             \* orders table: id -> row or NoRow
  cache,          \* Redis: id -> JSON value or NoEntry
  task,           \* per request task: position, arguments, locals, result
  ncalls,         \* number of calls started so far
  commits,        \* history: per order, the writes committed to its row
  okUpdates,      \* history: per order, number of acknowledged Update calls
  returnedVer,    \* history: highest version a returned UpdateOrderStatus made
  invalidatedVer, \* history: highest version whose cache delete completed
  lastGet,        \* history: the latest completed successful GetOrderByID
  notFoundSeen,   \* history: a GetOrderByID on the id has returned NotFound
  probe,          \* the questions put to a pure function, with its answers
  publisher,      \* the Event Publisher the service was built with, or "none"
  log,            \* the event topic: per key (order id), the records written
  lost,           \* history: per order, the number of publishes that failed
  watch,          \* per WatchOrders session: position, request, reader, stream
  groups          \* the broker's consumer groups: committed offsets, owners

vars == << db, cache, task, ncalls, commits, okUpdates, returnedVer,
           invalidatedVer, lastGet, notFoundSeen, probe, publisher, log, lost,
           watch, groups >>

\* the event side of the state
feed == << publisher, log, lost, watch, groups >>

\* the readers of the topic
subs == << watch, groups >>

hist == << commits, okUpdates, returnedVer, invalidatedVer, lastGet,
           notFoundSeen >>

NoProbe == << >>

\* the service of NewOrderService(repo, orderCache) has no publisher; main
\* builds the Kafka one when brokers are configured
NoPublisher == "none"
KafkaPublisher == "kafka"

\* the ids the table can hold in this run
IDs == DOMAIN db

\* the WatchOrders streams that can be open at a time, and the values the
\* eight hex digits of a session's consumer group id are drawn from
NumWatchers == 2
NumSuffixes == 2
Watchers == 1..NumWatchers
GroupSuffixes == 1..NumSuffixes

\* a stream slot on which WatchOrders has not been called; seen, tail and
\* start are history and never influence the program
IdleWatch ==
  [ pc |-> "idle", group |-> 0, statuses |-> { }, cancelled |-> FALSE,
    pending |-> Nil, sent |-> << >>, ret |-> "",
    seen |-> << >>,
    tail |-> [ o \in DOMAIN db |-> 0 ],
    start |-> [ o \in DOMAIN db |-> 0 ] ]

\* a consumer group nobody has joined: no committed offset on any partition
\* (-1), no member owning a partition (0)
NoGroup ==
  [ offset |-> [ o \in DOMAIN db |-> 0 - 1 ], owner |-> [ o \in DOMAIN db |-> 0 ] ]

\* a task that is not in a call; the fields from "read" on are history
\* about the current call and never influence the program
IdleTask ==
  [ pc |-> "idle", op |-> "none", id |-> 0, customerID |-> "",
    newStatus |-> NoStatus, items |-> << >>,
    order |-> Nil, err |-> ErrNone, ret |-> Nil,
    read |-> Nil, snap |-> [ o \in DOMAIN db |-> 0 ], startVer |-> 0,
    wrote |-> FALSE, cwrote |-> FALSE, hit |-> FALSE,
    getErr |-> FALSE, setErr |-> FALSE, delErr |-> FALSE,
    afterVer |-> 0, prev |-> Nil, pubErr |-> FALSE, query |-> Nil,
    resp |-> Nil, ttl |-> 0 ]

Init ==
  /\ db = [ o \in OrderIDs |-> NoRow ]
  /\ cache = [ o \in OrderIDs |-> NoEntry ]
  /\ task = [ t \in Tasks |-> IdleTask ]
  /\ ncalls = 0
  /\ commits = [ o \in OrderIDs |-> << >> ]
  /\ okUpdates = [ o \in OrderIDs |-> 0 ]
  /\ returnedVer = [ o \in OrderIDs |-> 0 ]
  /\ invalidatedVer = [ o \in OrderIDs |-> 0 ]
  /\ lastGet = [ o \in OrderIDs |-> Nil ]
  /\ notFoundSeen = [ o \in OrderIDs |-> FALSE ]
  /\ probe = NoProbe
  /\ publisher = NoPublisher
  /\ log = [ o \in OrderIDs |-> << >> ]
  /\ lost = [ o \in OrderIDs |-> 0 ]
  /\ watch = [ w \in Watchers |-> IdleWatch ]
  /\ groups = [ g \in GroupSuffixes |-> NoGroup ]

Live(row) == row # NoRow /\ ~row.Deleted

Max(a, b) == IF a >= b THEN a ELSE b

\* the versions of the live orders, 0 for an id with no live order
LiveVersions == [ o \in DOMAIN db |-> IF Live(db[o]) THEN db[o].Version ELSE 0 ]

\* A request arrives and is given to a task that is in no call: the handler
\* starts, no I/O has happened yet.  The history keeps the versions stored at
\* that moment.
Invoke(t) ==
  /\ task[t].pc \in { "idle", "done" }
  /\ ncalls < MaxCalls
  /\ task' = [ task EXCEPT ![t] = [ IdleTask EXCEPT !.pc = "called", !.snap = LiveVersions ] ]
  /\ ncalls' = ncalls + 1
  /\ UNCHANGED << db, cache, hist, probe, feed >>

\* the task has been handed a request and has done no I/O yet
CanStart(t) == task[t].pc = "called"

\* the task record at the first round trip of a call on order id, with the
\* history of the start
Begin(t, op, id) ==
  [ task[t] EXCEPT
      !.op = op, !.id = id,
      !.startVer = task[t].snap[id],
      !.snap = IdleTask.snap,
      !.afterVer = IF Live(db[id]) /\ returnedVer[id] = db[id].Version
                   THEN db[id].Version ELSE 0,
      !.prev = lastGet[id] ]

\* the calls that publish an event once their write has succeeded: CreateOrder
\* a created event, UpdateOrderStatus a status changed event
Publishes(tk, err) ==
  /\ publisher # NoPublisher
  /\ err = ErrNone
  /\ tk.op \in { "CreateOrder", "UpdateOrderStatus" }

\* return (order, err) to the caller; with a publisher, a successful write
\* is followed by its best-effort publish before the return
Return(tk, order, err) ==
  [ tk EXCEPT !.pc = IF Publishes(tk, err) THEN "publish" ELSE "done",
              !.ret = order, !.err = err ]

\* ------------------------------------------------------------- CreateOrder
CreateValidate_FirstItemOnly(customerID, dtoItems) ==
  IF customerID = "" THEN ErrInvalidCustomerID
  ELSE IF Len(dtoItems) = 0 THEN ErrNoItems
  ELSE ItemValidate(dtoItems[1])

\* orderServiceImpl.CreateOrder up to the repository call: the validation
\* error, or ErrNone
CreateValidate(customerID, dtoItems) ==
  IF customerID = "" THEN ErrInvalidCustomerID
  ELSE IF Len(dtoItems) = 0 THEN ErrNoItems
  ELSE FirstItemError(dtoItems)

\* the ids no row has yet
Unused == { o \in IDs : db[o] = NoRow }

\* uuid.New() for a new order: an id no row has; which one makes no
\* difference, the least is taken
FreshID == CHOOSE o \in Unused : \A u \in Unused : o <= u

\* time.Now() of CreateOrder, as a logical time that advances with every insert
Now == 1 + Cardinality(IDs \ Unused)

\* orderServiceImpl.CreateOrder: validate, build the order, repo.Create; the
\* caller's customer id and item list are drawn from the given sets
CreateOrderFrom(t, customers, itemLists) ==
  /\ CanStart(t)
  /\ Unused # { }
  /\ \E customerID \in customers, dtoItems \in itemLists, id \in { FreshID } :
       /\ LET tk == [ Begin(t, "CreateOrder", id) EXCEPT
                        !.customerID = customerID, !.items = dtoItems ]
              verr == CreateValidate(customerID, dtoItems)
              row == CreatedRow(NewOrder(id, customerID, dtoItems, Now))
          IN  IF verr # ErrNone
              THEN /\ task' = [ task EXCEPT ![t] = Return(tk, Nil, verr) ]
                   /\ UNCHANGED << db, commits >>
              ELSE /\ db' = [ db EXCEPT ![id] = row ]
                   /\ commits' = [ commits EXCEPT ![id] =
                        << [ task |-> t, kind |-> "create", statusReq |-> TRUE,
                             status |-> row.Status, version |-> row.Version,
                             row |-> row ] >> ]
                   /\ task' = [ task EXCEPT ![t] =
                        Return([ tk EXCEPT !.order = row, !.wrote = TRUE ],
                               row, ErrNone) ]
  /\ UNCHANGED << cache, ncalls, okUpdates, returnedVer, invalidatedVer, lastGet,
                  notFoundSeen, probe, feed >>

CreateOrder(t) == CreateOrderFrom(t, CustomerInputs, CreateItemInputs)

\* ------------------------------------------------------------ GetOrderByID
\* const orderCacheTTL = 5 * time.Minute, in seconds
orderCacheTTL == 300

\* orderCacheRedis.Get: redis.Nil is a miss (nil, nil), else the unmarshalled
\* order
CacheGet(data) == IF data = NoEntry THEN Nil ELSE Unmarshal(data)

GetAfterCacheGet_Propagate(tk, cached, failed) ==
  IF failed THEN Return([ tk EXCEPT !.getErr = TRUE ], Nil, "cache get failed")
  ELSE IF cached # Nil THEN Return([ tk EXCEPT !.hit = TRUE ], cached, ErrNone)
  ELSE [ tk EXCEPT !.pc = "get_find" ]

\* a service that reads the table even after a cache hit
GetAfterCacheGet_Refetch(tk, cached, failed) ==
  [ tk EXCEPT !.pc = "get_find", !.getErr = failed ]

\* GetOrderByID after s.cache.Get: a failure is logged, a hit is returned,
\* anything else goes on to the repository
GetAfterCacheGet(tk, cached, failed) ==
  IF failed THEN [ tk EXCEPT !.pc = "get_find", !.getErr = TRUE ]
  ELSE IF cached # Nil THEN Return([ tk EXCEPT !.hit = TRUE ], cached, ErrNone)
  ELSE [ tk EXCEPT !.pc = "get_find" ]

GetAfterFind_CacheAbsence(tk, order) ==
  IF order = Nil
  THEN [ tk EXCEPT !.pc = "get_set", !.order = [ ZeroOrder EXCEPT !.ID = tk.id ] ]
  ELSE [ tk EXCEPT !.pc = "get_set", !.order = order, !.read = order ]

\* GetOrderByID after s.repo.FindByID: nil is NotFound (nothing is cached),
\* an order goes on to the cache population
GetAfterFind(tk, order) ==
  IF order = Nil THEN Return(tk, Nil, ErrOrderNotFound)
  ELSE [ tk EXCEPT !.pc = "get_set", !.order = order, !.read = order ]

\* GetOrderByID after s.cache.Set: a failure is logged, the order returned
GetAfterSet(tk, failed) ==
  Return([ tk EXCEPT !.setErr = failed ], tk.order, ErrNone)

\* what a completed GetOrderByID leaves in the history
GetHistory(tk) ==
  /\ lastGet' = IF tk.pc = "done" /\ tk.err = ErrNone
                THEN [ lastGet EXCEPT ![tk.id] = [ order |-> tk.ret, ver |-> tk.startVer ] ]
                ELSE lastGet
  /\ notFoundSeen' = IF tk.pc = "done" /\ tk.err = ErrOrderNotFound
                     THEN [ notFoundSeen EXCEPT ![tk.id] = TRUE ]
                     ELSE notFoundSeen

\* GetOrderByID, first round trip: s.cache.Get
GetOrderByID_CacheGet(t) ==
  /\ CanStart(t)
  /\ \E id \in IDs, failed \in BOOLEAN :
       LET tk == GetAfterCacheGet(Begin(t, "GetOrderByID", id), CacheGet(cache[id]), failed)
       IN  /\ task' = [ task EXCEPT ![t] = tk ]
           /\ GetHistory(tk)
  /\ UNCHANGED << db, cache, ncalls, commits, okUpdates, returnedVer, invalidatedVer, probe, feed >>

\* GetOrderByID, second round trip: s.repo.FindByID
GetOrderByID_Find(t) ==
  /\ task[t].pc = "get_find"
  /\ LET tk == GetAfterFind(task[t], FindByID(db[task[t].id]))
     IN  /\ task' = [ task EXCEPT ![t] = tk ]
         /\ GetHistory(tk)
  /\ UNCHANGED << db, cache, ncalls, commits, okUpdates, returnedVer,
                  invalidatedVer, probe, feed >>

\* orderCacheRedis.Set: SET order:<order.ID> <json> EX ttl
CacheSet(c, order) == [ c EXCEPT ![order.ID] = Marshal(order) ]

\* GetOrderByID, third round trip: s.cache.Set with orderCacheTTL, which may
\* fail
GetOrderByID_CacheSet(t) ==
  /\ task[t].pc = "get_set"
  /\ \E failed \in BOOLEAN :
       LET tk == GetAfterSet([ task[t] EXCEPT !.cwrote = ~failed,
                                              !.ttl = orderCacheTTL ], failed)
       IN  /\ cache' = IF failed THEN cache ELSE CacheSet(cache, task[t].order)
           /\ task' = [ task EXCEPT ![t] = tk ]
           /\ GetHistory(tk)
  /\ UNCHANGED << db, ncalls, commits, okUpdates, returnedVer, invalidatedVer, probe, feed >>

\* the TTL of an entry runs out, or the cache is flushed
CacheExpire(id) ==
  /\ cache[id] # NoEntry
  /\ cache' = [ cache EXCEPT ![id] = NoEntry ]
  /\ UNCHANGED << db, task, ncalls, hist, probe, feed >>

\* ------------------------------------------- UpdateOrder / UpdateOrderStatus
\* a service that takes the current order from the cache when it is there
StatusAfterFind_FromCache(tk, order) ==
  LET current == IF cache[tk.id] # NoEntry THEN Unmarshal(cache[tk.id]) ELSE order
  IN  IF current = Nil THEN Return(tk, Nil, ErrOrderNotFound)
      ELSE IF ~CanTransitionTo(current.Status, tk.newStatus)
           THEN Return([ tk EXCEPT !.read = current ], Nil, ErrInvalidTransition)
      ELSE [ tk EXCEPT !.pc = "repo_update", !.read = current,
                       !.order = [ current EXCEPT !.Status = tk.newStatus ] ]

\* UpdateOrderStatus after s.repo.FindByID: NotFound, InvalidTransition, or
\* the order with the new status ready to be written
StatusAfterFind(tk, order) ==
  IF order = Nil THEN Return(tk, Nil, ErrOrderNotFound)
  ELSE IF ~CanTransitionTo(order.Status, tk.newStatus)
       THEN Return([ tk EXCEPT !.read = order ], Nil, ErrInvalidTransition)
  ELSE [ tk EXCEPT !.pc = "repo_update", !.read = order,
                   !.order = [ order EXCEPT !.Status = tk.newStatus ] ]

UpdateAfterFind_StaleTotal(tk, order) ==
  IF order = Nil THEN Return(tk, Nil, ErrOrderNotFound)
  ELSE
    LET given == Len(tk.items) > 0
        ierr == IF given THEN FirstItemError(tk.items) ELSE ErrNone
        o1 == IF given THEN [ order EXCEPT !.Items = BuildItems(tk.items) ] ELSE order
        o2 == IF tk.newStatus # NoStatus
              THEN [ o1 EXCEPT !.Status = tk.newStatus ]
              ELSE o1
        tr == [ tk EXCEPT !.read = order ]
    IN  IF ierr # ErrNone THEN Return(tr, Nil, ierr)
        ELSE IF tk.newStatus # NoStatus /\ ~CanTransitionTo(o1.Status, tk.newStatus)
             THEN Return(tr, Nil, ErrInvalidTransition)
        ELSE [ tr EXCEPT !.pc = "repo_update", !.order = o2 ]

\* UpdateOrder after s.repo.FindByID: NotFound, an item validation error,
\* InvalidTransition, or the order with the new items / total / status
UpdateAfterFind(tk, order) ==
  IF order = Nil THEN Return(tk, Nil, ErrOrderNotFound)
  ELSE
    LET given == Len(tk.items) > 0
        ierr == IF given THEN FirstItemError(tk.items) ELSE ErrNone
        o1 == IF given
              THEN [ order EXCEPT !.Items = BuildItems(tk.items),
                                  !.Total = CalculateTotal(BuildItems(tk.items)) ]
              ELSE order
        o2 == IF tk.newStatus # NoStatus
              THEN [ o1 EXCEPT !.Status = tk.newStatus ]
              ELSE o1
        tr == [ tk EXCEPT !.read = order ]
    IN  IF ierr # ErrNone THEN Return(tr, Nil, ierr)
        ELSE IF tk.newStatus # NoStatus /\ ~CanTransitionTo(o1.Status, tk.newStatus)
             THEN Return(tr, Nil, ErrInvalidTransition)
        ELSE [ tr EXCEPT !.pc = "repo_update", !.order = o2 ]

\* UpdateOrderStatus after s.repo.Update: the error verbatim, or on to the
\* cache invalidation
StatusAfterUpdate(tk, err) ==
  IF err # ErrNone THEN Return(tk, Nil, err)
  ELSE [ tk EXCEPT !.pc = "us_cachedel" ]

\* UpdateOrder after s.repo.Update: the error verbatim, or the order
UpdateAfterUpdate(tk, err) ==
  IF err # ErrNone THEN Return(tk, Nil, err)
  ELSE Return(tk, tk.order, ErrNone)

\* a service that answers a concurrent modification by reading the order
\* again and repeating the update
AfterUpdate_Retry(tk, err) ==
  IF err = ErrConcurrentModification
  THEN IF tk.op = "UpdateOrderStatus" THEN StatusAfterFind(tk, FindByID(db[tk.id]))
       ELSE UpdateAfterFind(tk, FindByID(db[tk.id]))
  ELSE IF tk.op = "UpdateOrderStatus" THEN StatusAfterUpdate(tk, err)
  ELSE UpdateAfterUpdate(tk, err)

\* the end of s.repo.Update in UpdateOrderStatus and in UpdateOrder
AfterUpdate(tk, err) ==
  IF tk.op = "UpdateOrderStatus" THEN StatusAfterUpdate(tk, err)
  ELSE UpdateAfterUpdate(tk, err)

\* UpdateOrderStatus after s.cache.Delete: a failure is logged, the order
\* returned
StatusAfterCacheDelete(tk, failed) ==
  Return([ tk EXCEPT !.delErr = failed ], tk.order, ErrNone)

\* UpdateOrderStatus, first round trip: s.repo.FindByID, then the transition
\* check on the order read
UpdateOrderStatus_Find(t) ==
  /\ CanStart(t)
  /\ \E id \in IDs, newStatus \in Statuses :
       task' = [ task EXCEPT ![t] =
         StatusAfterFind([ Begin(t, "UpdateOrderStatus", id) EXCEPT !.newStatus = newStatus ],
                         FindByID(db[id])) ]
  /\ UNCHANGED << db, cache, ncalls, hist, probe, feed >>

\* UpdateOrder, first round trip: s.repo.FindByID, then the in-memory changes
UpdateOrderFindFrom(t, itemLists) ==
  /\ CanStart(t)
  /\ \E id \in IDs, dtoItems \in itemLists,
        newStatus \in Statuses \cup { NoStatus } :
       task' = [ task EXCEPT ![t] =
         UpdateAfterFind([ Begin(t, "UpdateOrder", id) EXCEPT
                             !.newStatus = newStatus, !.items = dtoItems ],
                         FindByID(db[id])) ]
  /\ UNCHANGED << db, cache, ncalls, hist, probe, feed >>

UpdateOrder_Find(t) == UpdateOrderFindFrom(t, UpdateItemInputs)

\* orderRepositoryPostgres.Update, the UPDATE statement: on a matched row the
\* version of the caller's order is incremented and nil returned; with no row
\* affected the method goes on to orderExists
RepoUpdate_Exec(t) ==
  /\ task[t].pc = "repo_update"
  /\ LET tk == task[t]
         id == tk.order.ID
         row == db[id]
         newRow == RowAfterUpdate(row, tk.order)
         rowsAffected == RowsAffected(row, newRow)
         tw == [ tk EXCEPT !.wrote = tk.wrote \/ newRow # row ]
     IN  /\ db' = [ db EXCEPT ![id] = newRow ]
         /\ commits' = IF newRow = row THEN commits
              ELSE [ commits EXCEPT ![id] = Append(@,
                     [ task |-> t, kind |-> "update",
                       statusReq |-> tk.newStatus # NoStatus,
                       status |-> newRow.Status, version |-> newRow.Version,
                       row |-> newRow ]) ]
         /\ IF rowsAffected = 0
            THEN /\ task' = [ task EXCEPT ![t] = [ tw EXCEPT !.pc = "repo_exists" ] ]
                 /\ UNCHANGED okUpdates
            ELSE /\ task' = [ task EXCEPT ![t] =
                      AfterUpdate([ tw EXCEPT !.order.Version = tk.order.Version + 1 ],
                                  ErrNone) ]
                 /\ okUpdates' = [ okUpdates EXCEPT ![id] = @ + 1 ]
  /\ UNCHANGED << cache, ncalls, returnedVer, invalidatedVer, lastGet,
                  notFoundSeen, probe, feed >>

\* orderRepositoryPostgres.Update, the follow-up orderExists query after an
\* UPDATE that affected no row
RepoUpdate_Exists(t) ==
  /\ task[t].pc = "repo_exists"
  /\ LET tk == task[t]
         err == IF ~orderExists(db[tk.order.ID]) THEN ErrOrderNotFound
                ELSE ErrConcurrentModification
     IN  task' = [ task EXCEPT ![t] = AfterUpdate(tk, err) ]
  /\ UNCHANGED << db, cache, ncalls, hist, probe, feed >>

\* orderCacheRedis.Delete: DEL order:<id>
CacheDelete(c, id) == [ c EXCEPT ![id] = NoEntry ]

\* UpdateOrderStatus, last round trip: s.cache.Delete, which may fail
UpdateOrderStatus_CacheDelete(t) ==
  /\ task[t].pc = "us_cachedel"
  /\ \E failed \in BOOLEAN :
       LET tk == task[t]
       IN  /\ cache' = IF failed THEN cache ELSE CacheDelete(cache, tk.id)
           /\ task' = [ task EXCEPT ![t] = StatusAfterCacheDelete(tk, failed) ]
           /\ returnedVer' = [ returnedVer EXCEPT ![tk.id] = Max(@, tk.order.Version) ]
           /\ invalidatedVer' = IF failed THEN invalidatedVer
                ELSE [ invalidatedVer EXCEPT ![tk.id] = Max(@, tk.order.Version) ]
  /\ UNCHANGED << db, ncalls, commits, okUpdates, lastGet, notFoundSeen, probe, feed >>

\* -------------------------------------------------------------- DeleteOrder
\* DeleteOrder after s.repo.FindByID: NotFound, or on to the soft delete
DeleteAfterFind(tk, order) ==
  IF order = Nil THEN Return(tk, Nil, ErrOrderNotFound)
  ELSE [ tk EXCEPT !.pc = "del_delete", !.read = order, !.order = order ]

\* DeleteOrder, first round trip: s.repo.FindByID
DeleteOrder_Find(t) ==
  /\ CanStart(t)
  /\ \E id \in IDs :
       task' = [ task EXCEPT ![t] =
         DeleteAfterFind(Begin(t, "DeleteOrder", id), FindByID(db[id])) ]
  /\ UNCHANGED << db, cache, ncalls, hist, probe, feed >>

\* DeleteOrder, second round trip: orderRepositoryPostgres.Delete, whose
\* result is returned as it is
DeleteOrder_Delete(t) ==
  /\ task[t].pc = "del_delete"
  /\ LET tk == task[t]
         row == db[tk.id]
     IN  IF DeleteMatches(row)
         THEN /\ db' = [ db EXCEPT ![tk.id] = DeletedRow(row) ]
              /\ commits' = [ commits EXCEPT ![tk.id] = Append(@,
                   [ task |-> t, kind |-> "delete", statusReq |-> FALSE,
                     status |-> row.Status, version |-> row.Version + 1,
                     row |-> DeletedRow(row) ]) ]
              /\ task' = [ task EXCEPT ![t] =
                   Return([ tk EXCEPT !.wrote = TRUE ], Nil, ErrNone) ]
         ELSE /\ task' = [ task EXCEPT ![t] = Return(tk, Nil, ErrOrderNotFound) ]
              /\ UNCHANGED << db, commits >>
  /\ UNCHANGED << cache, ncalls, okUpdates, returnedVer, invalidatedVer,
                  lastGet, notFoundSeen, probe, feed >>

\* ------------------------------------------------------------ specification
Next ==
  \/ \E t \in Tasks : Invoke(t)
  \/ \E t \in Tasks : CreateOrder(t)
  \/ \E t \in Tasks : GetOrderByID_CacheGet(t)
  \/ \E t \in Tasks : GetOrderByID_Find(t)
  \/ \E t \in Tasks : GetOrderByID_CacheSet(t)
  \/ \E t \in Tasks : UpdateOrderStatus_Find(t)
  \/ \E t \in Tasks : UpdateOrder_Find(t)
  \/ \E t \in Tasks : RepoUpdate_Exec(t)
  \/ \E t \in Tasks : RepoUpdate_Exists(t)
  \/ \E t \in Tasks : UpdateOrderStatus_CacheDelete(t)
  \/ \E t \in Tasks : DeleteOrder_Find(t)
  \/ \E t \in Tasks : DeleteOrder_Delete(t)
  \/ \E id \in IDs : CacheExpire(id)

Spec == Init /\ [][Next]_vars

\* -------------------------------------------------- the status machine alone
\* bound on the number of questions asked of CanTransitionTo in one behaviour
MaxProbes == 2

\* one question to OrderStatus.CanTransitionTo, for any pair of statuses
AskTransition ==
  /\ Len(probe) < MaxProbes
  /\ \E from \in Statuses, to \in Statuses :
       probe' = Append(probe, [ from |-> from, to |-> to,
                                answer |-> CanTransitionTo(from, to) ])
  /\ UNCHANGED << db, cache, task, ncalls, hist, feed >>

NextTransitions == AskTransition

SpecTransitions == Init /\ [][NextTransitions]_vars

\* =================================================================== claims
\* the transition table of the specification (section 4.1)
TransitionTable ==
  { << "pending", "confirmed" >>, << "pending", "cancelled" >>,
    << "confirmed", "processing" >>, << "confirmed", "cancelled" >>,
    << "processing", "shipped" >>, << "processing", "cancelled" >>,
    << "shipped", "delivered" >> }

Done(t, op) == task[t].pc = "done" /\ task[t].op = op

Updates == { "UpdateOrder", "UpdateOrderStatus" }

\* t1 and t2 are two finished UpdateOrderStatus calls that both started while
\* the order was live at the same version v, both asking for the same status,
\* legal from the status stored at v, and nobody else has written the order
\* since
Raced(t1, t2) ==
  /\ t1 # t2
  /\ Done(t1, "UpdateOrderStatus") /\ Done(t2, "UpdateOrderStatus")
  /\ task[t1].id = task[t2].id
  /\ task[t1].newStatus = task[t2].newStatus
  /\ task[t1].startVer = task[t2].startVer
  /\ task[t1].startVer >= 1
  /\ LET o == task[t1].id
         v == task[t1].startVer
     IN  /\ Live(db[o])
         /\ << commits[o][v].status, task[t1].newStatus >> \in TransitionTable
         /\ \A i \in (v + 1)..Len(commits[o]) : commits[o][i].task \in { t1, t2 }

\* the call of t succeeded and returned the order at version v + 1
Won(t, v) ==
  /\ task[t].err = ErrNone
  /\ task[t].ret # Nil
  /\ task[t].ret.Version = v + 1
  /\ task[t].ret.Status = task[t].newStatus

\* C1 as stated: of two concurrent UpdateOrderStatus calls against the same
\* live order at version v, both for the same legal status, exactly one
\* succeeds returning version v+1 and the other fails with
\* ConcurrentModification, in every interleaving.
C1_LoserAlwaysConcurrentModification ==
  \A t1, t2 \in Tasks :
    Raced(t1, t2) =>
      \/ Won(t1, task[t1].startVer) /\ task[t2].err = ErrConcurrentModification
      \/ Won(t2, task[t1].startVer) /\ task[t1].err = ErrConcurrentModification

\* the call of t failed the way a loser of the race at version v fails: with
\* ConcurrentModification when it had read version v, with InvalidTransition
\* when it read the winner's version v+1
Lost(t, v) ==
  /\ task[t].ret = Nil
  /\ task[t].read # Nil
  /\ \/ task[t].read.Version = v /\ task[t].err = ErrConcurrentModification
     \/ task[t].read.Version = v + 1 /\ task[t].err = ErrInvalidTransition

\* C1 (amended): of two concurrent UpdateOrderStatus calls against the same
\* live order at version v, both for the same legal status, exactly one
\* succeeds and returns version v+1; the other fails, with
\* ConcurrentModification if it read the order before the winner's write and
\* with InvalidTransition if it read it after; the stored version is v+1.
C1_ExactlyOneWinner ==
  \A t1, t2 \in Tasks :
    Raced(t1, t2) =>
      /\ db[task[t1].id].Version = task[t1].startVer + 1
      /\ \/ Won(t1, task[t1].startVer) /\ Lost(t2, task[t1].startVer)
         \/ Won(t2, task[t1].startVer) /\ Lost(t1, task[t1].startVer)

C1_Witness ==
  \E t1, t2 \in Tasks :
    /\ Raced(t1, t2)
    /\ task[t1].startVer = 2
    /\ Won(t1, 2)
    /\ task[t2].err = ErrConcurrentModification

\* C2 as stated: the stored version is >= 1, a successful update returns the
\* version it stored, and the stored version always equals 1 plus the number
\* of updates that reported success.
C2_VersionCountsUpdates ==
  \A o \in OrderIDs :
    db[o] # NoRow =>
      /\ db[o].Version >= 1
      /\ db[o].Version = 1 + okUpdates[o]

\* C2 (amended): the stored version is >= 1; every write to the row is logged
\* with the next version, none lower and none skipped; a successful
\* UpdateOrder / UpdateOrderStatus returns the version its own write stored,
\* one above the version it read; and the stored version equals 1 plus the
\* number of updates that succeeded, plus 1 once the order is soft-deleted
\* (the soft delete raises the version too).
C2_VersionMonotonic ==
  /\ \A o \in OrderIDs :
       /\ db[o] = NoRow => commits[o] = << >> /\ okUpdates[o] = 0
       /\ db[o] # NoRow =>
            /\ db[o].Version >= 1
            /\ Len(commits[o]) = db[o].Version
            /\ \A i \in 1..Len(commits[o]) : commits[o][i].version = i
            /\ db[o].Version = 1 + okUpdates[o] + (IF db[o].Deleted THEN 1 ELSE 0)
  /\ \A t \in Tasks :
       task[t].pc = "done" /\ task[t].op \in Updates /\ task[t].err = ErrNone =>
         /\ task[t].ret # Nil
         /\ task[t].ret.Version = task[t].read.Version + 1
         /\ task[t].ret.Version <= db[task[t].id].Version
         /\ commits[task[t].id][task[t].ret.Version].task = t
         /\ commits[task[t].id][task[t].ret.Version].kind = "update"

C2_Witness ==
  \E o \in OrderIDs, t \in Tasks :
    /\ db[o] # NoRow /\ db[o].Deleted
    /\ okUpdates[o] = 2
    /\ db[o].Version = 4
    /\ Done(t, "UpdateOrderStatus") /\ task[t].err = ErrNone

\* C3: the statuses committed for one order start at pending, and every
\* write that asked for a status moves the order along an arrow of the
\* transition table from the status committed just before it, while every
\* other write (items only, soft delete) keeps that status; the stored status
\* is the last one committed.
C3_CommittedStatusesFollowTable ==
  \A o \in OrderIDs :
    /\ \A i \in 1..Len(commits[o]) :
         IF i = 1
         THEN commits[o][i].kind = "create" /\ commits[o][i].status = "pending"
         ELSE IF commits[o][i].statusReq
              THEN << commits[o][i-1].status, commits[o][i].status >> \in TransitionTable
              ELSE commits[o][i].status = commits[o][i-1].status
    /\ db[o] # NoRow =>
         /\ commits[o] # << >>
         /\ db[o].Status = commits[o][Len(commits[o])].status

C3_Witness ==
  \E o \in OrderIDs, t1, t2 \in Tasks :
    /\ Len(commits[o]) = 3
    /\ commits[o][2].statusReq /\ commits[o][3].statusReq
    /\ commits[o][2].task = t1 /\ commits[o][3].task = t2 /\ t1 # t2
    /\ task[t1].pc = "done" /\ task[t1].op \in Updates
    /\ task[t1].err = ErrConcurrentModification

\* C4: every answer of CanTransitionTo(from, to) is true exactly when
\* (from, to) is an arrow of the transition table.
C4_TransitionClosure ==
  \A i \in 1..Len(probe) :
    probe[i].answer <=> (<< probe[i].from, probe[i].to >> \in TransitionTable)

C4_Witness ==
  /\ Len(probe) = 2
  /\ probe[1] = [ from |-> "shipped", to |-> "delivered", answer |-> TRUE ]
  /\ probe[2] = [ from |-> "delivered", to |-> "delivered", answer |-> FALSE ]

\* C5: an UpdateOrder / UpdateOrderStatus call that fails with
\* InvalidTransition, NotFound or ConcurrentModification has written nothing
\* to the orders table and returns no order.
C5_FailedUpdateWritesNothing ==
  \A t \in Tasks :
    ( /\ task[t].pc = "done"
      /\ task[t].op \in Updates
      /\ task[t].err \in { ErrInvalidTransition, ErrOrderNotFound,
                           ErrConcurrentModification } )
    => /\ ~task[t].wrote
       /\ task[t].ret = Nil

C5_Witness ==
  \E t \in Tasks :
    /\ Done(t, "UpdateOrderStatus")
    /\ task[t].err = ErrInvalidTransition
    /\ task[t].read # Nil
    /\ task[t].read.Status = "confirmed"
    /\ task[t].newStatus = "shipped"
    /\ db[task[t].id].Status = "confirmed"
    /\ db[task[t].id].Version = task[t].read.Version

\* C6: a GetOrderByID that starts after an UpdateOrderStatus(id, s) has
\* returned successfully, with no later write to the order, returns the
\* order with status s.
C6_ReadAfterStatusUpdateIsFresh ==
  \A t \in Tasks :
    ( /\ Done(t, "GetOrderByID")
      /\ task[t].afterVer # 0
      /\ Live(db[task[t].id])
      /\ db[task[t].id].Version = task[t].afterVer )
    => /\ task[t].err = ErrNone
       /\ task[t].ret # Nil
       /\ task[t].ret.Status = db[task[t].id].Status

\* C7: once the cache delete of an UpdateOrderStatus has completed, the cache
\* never holds the order as it was before that update.
C7_NoStaleEntryAfterInvalidation ==
  \A o \in OrderIDs :
    cache[o] # NoEntry => Unmarshal(cache[o]).Version >= invalidatedVer[o]

\* C8: a GetOrderByID that returns NotFound has written nothing to the cache
\* and returns no order, the cache holds no entry for an id that was never
\* stored, and a GetOrderByID on an order that was live when the call arrived
\* and still is returns that order, also when an earlier GetOrderByID on the
\* id had returned NotFound.
C8_NoNegativeCaching ==
  /\ \A o \in OrderIDs : db[o] = NoRow => cache[o] = NoEntry
  /\ \A t \in Tasks :
       Done(t, "GetOrderByID") =>
         /\ task[t].err = ErrOrderNotFound => ~task[t].cwrote /\ task[t].ret = Nil
         /\ task[t].startVer >= 1 /\ Live(db[task[t].id]) =>
              /\ task[t].err = ErrNone
              /\ task[t].ret # Nil
              /\ task[t].ret.ID = task[t].id
              /\ task[t].ret.Version >= 1

C8_Witness ==
  \E t \in Tasks :
    /\ Done(t, "GetOrderByID")
    /\ notFoundSeen[task[t].id]
    /\ task[t].err = ErrNone
    /\ task[t].ret = db[task[t].id]
    /\ cache[task[t].id] = Marshal(db[task[t].id])

\* the errors a call may hand to its caller
DomainErrors ==
  { ErrOrderNotFound, ErrInvalidCustomerID, ErrNoItems, ErrInvalidProductID,
    ErrInvalidProductName, ErrInvalidQuantity, ErrInvalidPrice,
    ErrInvalidTransition, ErrConcurrentModification }

\* C9: no call returns a cache error; a GetOrderByID whose cache Get or cache
\* Set failed returns what Persistence returned (the order, or NotFound); an
\* UpdateOrderStatus whose cache Delete failed returns the updated order and
\* its write is committed.
C9_CacheFailuresAbsorbed ==
  \A t \in Tasks :
    task[t].pc = "done" =>
      /\ task[t].err \in DomainErrors \cup { ErrNone }
      /\ task[t].op = "GetOrderByID" /\ (task[t].getErr \/ task[t].setErr) =>
           IF task[t].read = Nil
           THEN task[t].err = ErrOrderNotFound /\ task[t].ret = Nil
           ELSE task[t].err = ErrNone /\ task[t].ret = task[t].read
      /\ task[t].op = "UpdateOrderStatus" /\ task[t].delErr =>
           /\ task[t].err = ErrNone
           /\ task[t].ret # Nil
           /\ task[t].ret.Status = task[t].newStatus
           /\ task[t].ret.Version = task[t].read.Version + 1
           /\ Len(commits[task[t].id]) >= task[t].ret.Version
           /\ commits[task[t].id][task[t].ret.Version] =
                [ task |-> t, kind |-> "update", statusReq |-> TRUE,
                  status |-> task[t].newStatus, version |-> task[t].ret.Version,
                  row |-> commits[task[t].id][task[t].ret.Version].row ]

C9_Witness ==
  \E t1, t2 \in Tasks :
    /\ Done(t1, "GetOrderByID")
    /\ task[t1].getErr /\ task[t1].setErr
    /\ task[t1].ret # Nil
    /\ Done(t2, "UpdateOrderStatus")
    /\ task[t2].delErr
    /\ task[t2].ret # Nil

\* C10: two GetOrderByID calls on one id, the second started after the first
\* returned, with no write to the order from the arrival of the first to the
\* return of the second, return the same order content.
C10_RepeatedReadsIdentical ==
  \A t \in Tasks :
    ( /\ Done(t, "GetOrderByID")
      /\ task[t].prev # Nil
      /\ Live(db[task[t].id])
      /\ task[t].prev.ver = db[task[t].id].Version )
    => /\ task[t].err = ErrNone
       /\ task[t].ret = task[t].prev.order

\* ---------------------------------------------- one caller, one stored order
\* the service runs against a table that already holds one order, as
\* CreateOrder stored it
InitSerial ==
  /\ db = [ o \in OrderIDs |->
            IF o = 1
            THEN CreatedRow(NewOrder(1, "cust-1", << DtoItem("p1", 2, 1050) >>, 1))
            ELSE NoRow ]
  /\ cache = [ o \in OrderIDs |-> NoEntry ]
  /\ task = [ t \in Tasks |-> IdleTask ]
  /\ ncalls = 0
  /\ commits = [ o \in OrderIDs |->
                 IF o = 1
                 THEN << [ task |-> 1, kind |-> "create", statusReq |-> TRUE,
                           status |-> OrderStatusPending, version |-> 1,
                           row |-> CreatedRow(NewOrder(1, "cust-1",
                                     << DtoItem("p1", 2, 1050) >>, 1)) ] >>
                 ELSE << >> ]
  /\ okUpdates = [ o \in OrderIDs |-> 0 ]
  /\ returnedVer = [ o \in OrderIDs |-> 0 ]
  /\ invalidatedVer = [ o \in OrderIDs |-> 0 ]
  /\ lastGet = [ o \in OrderIDs |-> Nil ]
  /\ notFoundSeen = [ o \in OrderIDs |-> FALSE ]
  /\ probe = NoProbe
  /\ publisher = NoPublisher
  /\ log = [ o \in OrderIDs |-> << >> ]
  /\ lost = [ o \in OrderIDs |-> 0 ]
  /\ watch = [ w \in Watchers |-> IdleWatch ]
  /\ groups = [ g \in GroupSuffixes |-> NoGroup ]

\* calls arrive one after another, each handled to its end by the same task
NextSerial ==
  \/ Invoke(1)
  \/ GetOrderByID_CacheGet(1)
  \/ GetOrderByID_Find(1)
  \/ GetOrderByID_CacheSet(1)
  \/ UpdateOrderStatus_Find(1)
  \/ UpdateOrder_Find(1)
  \/ RepoUpdate_Exec(1)
  \/ UpdateOrderStatus_CacheDelete(1)
  \/ DeleteOrder_Find(1)
  \/ DeleteOrder_Delete(1)
  \/ \E id \in IDs : CacheExpire(id)

SpecSerial == InitSerial /\ [][NextSerial]_vars

\* ------------------------------------------------- reads after a soft delete
\* C11: with calls handled one after another, a GetOrderByID that completes
\* while the row of its id is soft-deleted was started after the DeleteOrder
\* returned; it returns NotFound and no order.
C11_GetAfterDeleteNotFound ==
  \A t \in Tasks :
    ( /\ Done(t, "GetOrderByID")
      /\ db[task[t].id] # NoRow
      /\ db[task[t].id].Deleted )
    => /\ task[t].err = ErrOrderNotFound
       /\ task[t].ret = Nil

\* ------------------------------------------------------------------ events
EventOrderCreated == "order.created"
EventOrderStatusChanged == "order.status_changed"

\* Publisher.PublishOrderCreated: the record built from the order
OrderCreatedEvent(order) ==
  [ EventType  |-> EventOrderCreated,
    OrderID    |-> order.ID,
    CustomerID |-> order.CustomerID,
    Status     |-> order.Status,
    OldStatus  |-> "",
    NewStatus  |-> "",
    Total      |-> order.Total,
    Version    |-> order.Version ]

OrderStatusChangedEvent_Swapped(order, oldStatus, newStatus) ==
  [ EventType  |-> EventOrderStatusChanged,
    OrderID    |-> order.ID,
    CustomerID |-> order.CustomerID,
    Status     |-> order.Status,
    OldStatus  |-> newStatus,
    NewStatus  |-> oldStatus,
    Total      |-> order.Total,
    Version    |-> order.Version ]

\* Publisher.PublishOrderStatusChanged: the record built from the order and
\* the two statuses
OrderStatusChangedEvent(order, oldStatus, newStatus) ==
  [ EventType  |-> EventOrderStatusChanged,
    OrderID    |-> order.ID,
    CustomerID |-> order.CustomerID,
    Status     |-> order.Status,
    OldStatus  |-> oldStatus,
    NewStatus  |-> newStatus,
    Total      |-> order.Total,
    Version    |-> order.Version ]

\* Publisher.publish: one message keyed by the order id is written to the
\* topic, or the writer fails and nothing is written
publish(lg, key, evt, failed) ==
  IF failed THEN lg ELSE [ lg EXCEPT ![key] = Append(@, evt) ]

\* the event a call publishes for the order it returns
EventOf(tk) ==
  IF tk.op = "CreateOrder" THEN OrderCreatedEvent(tk.ret)
  ELSE OrderStatusChangedEvent(tk.ret, tk.read.Status, tk.newStatus)

AfterPublish_Propagate(tk, failed) ==
  IF failed
  THEN [ tk EXCEPT !.pc = "done", !.pubErr = TRUE, !.ret = Nil,
                   !.err = "publish failed" ]
  ELSE [ tk EXCEPT !.pc = "done" ]

\* the service after the publish: a failure is logged, the persisted order
\* is returned either way
AfterPublish(tk, failed) == [ tk EXCEPT !.pc = "done", !.pubErr = failed ]

\* CreateOrder / UpdateOrderStatus, last round trip with a publisher: the
\* best-effort publish of the event, which may fail
Publish(t) ==
  /\ task[t].pc = "publish"
  /\ \E failed \in BOOLEAN :
       LET tk == task[t]
       IN  /\ log' = publish(log, tk.ret.ID, EventOf(tk), failed)
           /\ lost' = IF failed THEN [ lost EXCEPT ![tk.id] = @ + 1 ] ELSE lost
           /\ task' = [ task EXCEPT ![t] = AfterPublish(tk, failed) ]
  /\ UNCHANGED << db, cache, ncalls, hist, probe, publisher, subs >>

\* the service built by main with the Kafka publisher, on an empty table
InitEvents ==
  /\ db = [ o \in OrderIDs |-> NoRow ]
  /\ cache = [ o \in OrderIDs |-> NoEntry ]
  /\ task = [ t \in Tasks |-> IdleTask ]
  /\ ncalls = 0
  /\ commits = [ o \in OrderIDs |-> << >> ]
  /\ okUpdates = [ o \in OrderIDs |-> 0 ]
  /\ returnedVer = [ o \in OrderIDs |-> 0 ]
  /\ invalidatedVer = [ o \in OrderIDs |-> 0 ]
  /\ lastGet = [ o \in OrderIDs |-> Nil ]
  /\ notFoundSeen = [ o \in OrderIDs |-> FALSE ]
  /\ probe = NoProbe
  /\ publisher = KafkaPublisher
  /\ log = [ o \in OrderIDs |-> << >> ]
  /\ lost = [ o \in OrderIDs |-> 0 ]
  /\ watch = [ w \in Watchers |-> IdleWatch ]
  /\ groups = [ g \in GroupSuffixes |-> NoGroup ]

\* concurrent CreateOrder and UpdateOrderStatus calls
NextEvents ==
  \/ \E t \in Tasks : Invoke(t)
  \/ \E t \in Tasks : CreateOrder(t)
  \/ \E t \in Tasks : UpdateOrderStatus_Find(t)
  \/ \E t \in Tasks : RepoUpdate_Exec(t)
  \/ \E t \in Tasks : RepoUpdate_Exists(t)
  \/ \E t \in Tasks : UpdateOrderStatus_CacheDelete(t)
  \/ \E t \in Tasks : Publish(t)

SpecEvents == InitEvents /\ [][NextEvents]_vars

\* the same calls arriving one after another, each handled to its end
NextEventsSerial ==
  \/ Invoke(1)
  \/ CreateOrder(1)
  \/ UpdateOrderStatus_Find(1)
  \/ RepoUpdate_Exec(1)
  \/ UpdateOrderStatus_CacheDelete(1)
  \/ Publish(1)

SpecEventsSerial == InitEvents /\ [][NextEventsSerial]_vars

\* ------------------------------------------------------- claims about events
\* no call is between its arrival and its return
Quiet == \A t \in Tasks : task[t].pc \in { "idle", "done" }

\* the statuses committed to an order, in commit order
CommitStatuses(o) == [ i \in 1..Len(commits[o]) |-> commits[o][i].status ]

\* what a consumer of the log reads for an order: type, old and new status
LogView(o) ==
  [ i \in 1..Len(log[o]) |->
      << log[o][i].EventType, log[o][i].OldStatus, log[o][i].NewStatus >> ]

\* C12: with calls made one after another and no publish failing, once an
\* order has been created and moved pending -> confirmed -> processing, the
\* log of its id holds exactly created, status_changed(pending, confirmed),
\* status_changed(confirmed, processing), in this order.
C12_LifecycleEvents ==
  \A o \in OrderIDs :
    ( /\ Quiet
      /\ lost[o] = 0
      /\ CommitStatuses(o) = << OrderStatusPending, OrderStatusConfirmed,
                                OrderStatusProcessing >> )
    => LogView(o) =
         << << EventOrderCreated, "", "" >>,
            << EventOrderStatusChanged, OrderStatusPending, OrderStatusConfirmed >>,
            << EventOrderStatusChanged, OrderStatusConfirmed, OrderStatusProcessing >> >>

C12_Witness ==
  /\ Quiet
  /\ lost[1] = 0
  /\ CommitStatuses(1) = << OrderStatusPending, OrderStatusConfirmed,
                            OrderStatusProcessing >>
  /\ Len(log[1]) = 3
  /\ log[1][3].Version = 3

\* C13: for each order, as long as no publish has failed, the events in the
\* log carry strictly increasing versions and each event's old status is the
\* status of the event before it, in every interleaving of concurrent calls.
C13_EventsInCommitOrder ==
  \A o \in OrderIDs :
    lost[o] = 0 =>
      \A i \in 1..(Len(log[o]) - 1) :
        /\ log[o][i].Version < log[o][i + 1].Version
        /\ log[o][i + 1].OldStatus = log[o][i].Status

\* C14: a CreateOrder or UpdateOrderStatus whose publish failed returns the
\* persisted order without error, its write is in the row history, and the
\* log holds no event for that write.
C14_PublishFailureAbsorbed ==
  \A t \in Tasks :
    ( /\ task[t].pc = "done"
      /\ task[t].op \in { "CreateOrder", "UpdateOrderStatus" }
      /\ task[t].pubErr )
    => /\ task[t].err = ErrNone
       /\ task[t].ret # Nil
       /\ \E i \in 1..Len(commits[task[t].id]) :
            /\ commits[task[t].id][i].version = task[t].ret.Version
            /\ commits[task[t].id][i].status = task[t].ret.Status
            /\ commits[task[t].id][i].task = t
       /\ db[task[t].id] # NoRow
       /\ db[task[t].id].Version >= task[t].ret.Version
       /\ \A i \in 1..Len(log[task[t].id]) :
            log[task[t].id][i].Version # task[t].ret.Version

C14_Witness ==
  \E t1, t2 \in Tasks :
    /\ t1 # t2
    /\ Done(t1, "UpdateOrderStatus") /\ task[t1].pubErr
    /\ task[t1].ret # Nil /\ task[t1].ret.Version = 2
    /\ Done(t2, "CreateOrder") /\ task[t2].pubErr
    /\ log[1] = << >>

\* ------------------------------------------- the two failures of Update
\* the follow-up existence check of task t answers in this step
ExistsAnswered(t) == task[t].pc = "repo_exists" /\ task'[t].pc # "repo_exists"

\* C15 as stated: when the conditional write matched no row, Update returns
\* NotFound exactly when no live order has the id, and ConcurrentModification
\* exactly when a live order has it with another version.
C15_NotFoundIffNoLiveOrder ==
  [][ \A t \in Tasks :
        ExistsAnswered(t) =>
          LET row == db[task[t].id]
          IN  /\ (task'[t].err = ErrOrderNotFound) <=> ~Live(row)
              /\ (task'[t].err = ErrConcurrentModification) <=>
                    (Live(row) /\ row.Version # task[t].order.Version) ]_vars

\* C15 amended: when the conditional write matched no row, Update returns
\* NotFound exactly when the table has no row with the id at all, and
\* ConcurrentModification exactly when it has one, live with another version
\* or soft-deleted.
C15_NotFoundIffNoRow ==
  [][ \A t \in Tasks :
        ExistsAnswered(t) =>
          LET row == db[task[t].id]
          IN  /\ (task'[t].err = ErrOrderNotFound) <=> (row = NoRow)
              /\ (task'[t].err = ErrConcurrentModification) <=>
                    (row # NoRow /\ (row.Deleted \/ row.Version # task[t].order.Version)) ]_vars

\* an update has failed with ConcurrentModification on an order that was
\* soft-deleted after the update had read it
C15_Witness ==
  \E t \in Tasks :
    /\ task[t].pc = "done"
    /\ task[t].op \in Updates
    /\ task[t].err = ErrConcurrentModification
    /\ task[t].read # Nil
    /\ db[task[t].id] # NoRow
    /\ db[task[t].id].Deleted
    /\ db[task[t].id].Version = task[t].read.Version + 1

\* ---------------------------------------------- a table of several orders
NumCatalogOrders == 3
CatalogIDs == 1..NumCatalogOrders

\* an item as a caller sends it
Item(p, n, q, c) == [ ProductID |-> p, Name |-> n, Quantity |-> q, Price |-> c ]

\* customer ids and item lists a caller may send, valid and invalid
AllCustomerInputs == { "", "cust-1", "cust-2" }
AllItemInputs ==
  { << >>,
    << DtoItem("p1", 2, 1050) >>,
    << DtoItem("p1", 1, 500), DtoItem("p2", 3, 250) >>,
    << Item("", "widget", 1, 100) >>,
    << Item("p1", "", 1, 100) >>,
    << Item("p1", "widget", 0, 100) >>,
    << Item("p1", "widget", 1, 0) >>,
    << DtoItem("p1", 1, 500), Item("p2", "gadget", 1, -5) >> }

\* the service built with the Kafka publisher on an empty table that can
\* hold several orders
InitCatalog ==
  /\ db = [ o \in CatalogIDs |-> NoRow ]
  /\ cache = [ o \in CatalogIDs |-> NoEntry ]
  /\ task = [ t \in Tasks |-> IdleTask ]
  /\ ncalls = 0
  /\ commits = [ o \in CatalogIDs |-> << >> ]
  /\ okUpdates = [ o \in CatalogIDs |-> 0 ]
  /\ returnedVer = [ o \in CatalogIDs |-> 0 ]
  /\ invalidatedVer = [ o \in CatalogIDs |-> 0 ]
  /\ lastGet = [ o \in CatalogIDs |-> Nil ]
  /\ notFoundSeen = [ o \in CatalogIDs |-> FALSE ]
  /\ probe = NoProbe
  /\ publisher = KafkaPublisher
  /\ log = [ o \in CatalogIDs |-> << >> ]
  /\ lost = [ o \in CatalogIDs |-> 0 ]
  /\ watch = [ w \in Watchers |-> IdleWatch ]
  /\ groups = [ g \in GroupSuffixes |-> NoGroup ]

CreateOrderAny(t) == CreateOrderFrom(t, AllCustomerInputs, AllItemInputs)

UpdateOrderAny(t) == UpdateOrderFindFrom(t, AllItemInputs)

\* calls of one caller, one after another, with any input
NextCatalog ==
  \/ Invoke(1)
  \/ CreateOrderAny(1)
  \/ UpdateOrderAny(1)
  \/ UpdateOrderStatus_Find(1)
  \/ RepoUpdate_Exec(1)
  \/ UpdateOrderStatus_CacheDelete(1)
  \/ Publish(1)
  \/ DeleteOrder_Find(1)
  \/ DeleteOrder_Delete(1)

SpecCatalog == InitCatalog /\ [][NextCatalog]_vars

\* ------------------------------------------- claims about CreateOrder input
\* the validation errors an item calls for
ItemProblems(i) ==
  (IF i.ProductID = "" THEN { ErrInvalidProductID } ELSE { }) \cup
  (IF i.Name = "" THEN { ErrInvalidProductName } ELSE { }) \cup
  (IF i.Quantity <= 0 THEN { ErrInvalidQuantity } ELSE { }) \cup
  (IF i.Price <= 0 THEN { ErrInvalidPrice } ELSE { })

\* the validation errors a CreateOrder input calls for; none for valid input
Problems(customerID, items) ==
  (IF customerID = "" THEN { ErrInvalidCustomerID } ELSE { }) \cup
  (IF Len(items) = 0 THEN { ErrNoItems } ELSE { }) \cup
  UNION { ItemProblems(items[k]) : k \in 1..Len(items) }

\* task t runs CreateOrder in this step
CreateStep(t) == task[t].pc = "called" /\ task'[t].op = "CreateOrder"

\* quantity * price summed over the first k items
RECURSIVE SumTo(_, _)
SumTo(items, k) ==
  IF k = 0 THEN 0 ELSE items[k].Quantity * items[k].Price + SumTo(items, k - 1)

\* C16: a CreateOrder with an empty customer id, an empty item list or an
\* item with an empty product id, empty name, quantity <= 0 or price <= 0
\* returns one of the validation errors its input calls for and no order, and
\* leaves the table, the cache and the event log as they were, with no
\* publish to follow.
C16_CreateFailsFast ==
  [][ \A t \in Tasks :
        ( CreateStep(t)
          /\ Problems(task'[t].customerID, task'[t].items) # { } )
        => /\ task'[t].err \in Problems(task'[t].customerID, task'[t].items)
           /\ task'[t].ret = Nil
           /\ task'[t].pc = "done"
           /\ ~task'[t].wrote
           /\ db' = db
           /\ cache' = cache
           /\ log' = log ]_vars

\* a CreateOrder whose second item has a bad price has failed on a table
\* that holds an earlier order
C16_Witness ==
  /\ Done(1, "CreateOrder")
  /\ task[1].err = ErrInvalidPrice
  /\ Len(task[1].items) = 2
  /\ task[1].ret = Nil
  /\ db[1] # NoRow
  /\ db[2] = NoRow

\* C17: a successful CreateOrder stores exactly one new row under an id that
\* had none, with status pending, version 1, the caller's customer id, one
\* item per input item in the same order and total = sum of quantity * price;
\* every other row and the cache stay as they were.
C17_CreateStoresOneOrder ==
  [][ \A t \in Tasks :
        ( CreateStep(t) /\ task'[t].err = ErrNone )
        => LET tk == task'[t]
               o == tk.ret
           IN  /\ o # Nil
               /\ db[o.ID] = NoRow
               /\ db'[o.ID] = o
               /\ \A x \in DOMAIN db \ { o.ID } : db'[x] = db[x]
               /\ o.Status = OrderStatusPending
               /\ o.Version = 1
               /\ ~o.Deleted
               /\ o.CustomerID = tk.customerID
               /\ Len(o.Items) = Len(tk.items)
               /\ \A k \in 1..Len(tk.items) :
                    /\ o.Items[k].ProductID = tk.items[k].ProductID
                    /\ o.Items[k].Name = tk.items[k].Name
                    /\ o.Items[k].Quantity = tk.items[k].Quantity
                    /\ o.Items[k].Price = tk.items[k].Price
               /\ o.Total = SumTo(tk.items, Len(tk.items))
               /\ cache' = cache ]_vars

\* CreateOrder("cust-1", one item, quantity 2 at 10.50) has returned total
\* 21.00 for the second order of the table
C17_Witness ==
  /\ Done(1, "CreateOrder")
  /\ task[1].err = ErrNone
  /\ task[1].customerID = "cust-1"
  /\ task[1].items = << DtoItem("p1", 2, 1050) >>
  /\ task[1].ret # Nil
  /\ task[1].ret.ID = 2
  /\ task[1].ret.Total = 2100
  /\ task[1].ret.Version = 1
  /\ db[1] # NoRow

\* the subtotals of the first k stored items, summed
RECURSIVE SubtotalsTo(_, _)
SubtotalsTo(items, k) ==
  IF k = 0 THEN 0 ELSE items[k].Subtotal + SubtotalsTo(items, k - 1)

\* C18: every stored order has at least one item, each subtotal is
\* quantity * price and the total is the sum of the subtotals; a successful
\* UpdateOrder with items leaves exactly the given items and their total in
\* the row, one without items and a successful UpdateOrderStatus leave items
\* and total as read.
C18_ItemsAndTotals ==
  /\ \A o \in DOMAIN db :
       db[o] # NoRow =>
         /\ Len(db[o].Items) > 0
         /\ \A k \in 1..Len(db[o].Items) :
              db[o].Items[k].Subtotal = db[o].Items[k].Quantity * db[o].Items[k].Price
         /\ db[o].Total = SubtotalsTo(db[o].Items, Len(db[o].Items))
  /\ \A t \in Tasks :
       ( Done(t, "UpdateOrder") /\ task[t].err = ErrNone ) =>
         LET row == db[task[t].id]
             given == task[t].items
         IN  IF Len(given) > 0
             THEN /\ Len(row.Items) = Len(given)
                  /\ \A k \in 1..Len(given) :
                       /\ row.Items[k].ProductID = given[k].ProductID
                       /\ row.Items[k].Quantity = given[k].Quantity
                       /\ row.Items[k].Price = given[k].Price
                  /\ row.Total = SumTo(given, Len(given))
             ELSE /\ row.Items = task[t].read.Items
                  /\ row.Total = task[t].read.Total
  /\ \A t \in Tasks :
       ( Done(t, "UpdateOrderStatus") /\ task[t].err = ErrNone ) =>
         /\ db[task[t].id].Items = task[t].read.Items
         /\ db[task[t].id].Total = task[t].read.Total

\* an UpdateOrder has replaced one item worth 21.00 by two worth 12.50
C18_Witness ==
  /\ Done(1, "UpdateOrder")
  /\ task[1].err = ErrNone
  /\ Len(task[1].items) = 2
  /\ task[1].read.Total = 2100
  /\ db[task[1].id].Total = 1250
  /\ db[task[1].id].Version = 2

\* ------------------------------------------------------ ListOrders paging
\* Go's int, scaled down from 64 bits, and the int32 of the gRPC request
\* fields, scaled down from 32 bits; a product of an int32 and 100 fits int
IntBits == 16
WireBits == 8
MaxInt == 2^(IntBits - 1) - 1
MinWire == 0 - 2^(WireBits - 1)
MaxWire == 2^(WireBits - 1) - 1

\* the value an int holds after an arithmetic result x
WrapInt(x) == ((x + 2^(IntBits - 1)) % 2^IntBits) - 2^(IntBits - 1)

MethodList == "List"
MethodFindByCustomerID == "FindByCustomerID"

\* the nil *string of ListOrdersRequest.CustomerID
NoCustomer == "<nil>"

\* service.ListOrdersRequest; Status NoStatus and CustomerID NoCustomer are
\* the nil pointers
ListOrdersRequest(page, pageSize, status, customerID) ==
  [ Page |-> page, PageSize |-> pageSize, Status |-> status,
    CustomerID |-> customerID ]

\* ListOrders: page := req.Page; if page < 1 { page = 1 }
EffectivePage(req) == IF req.Page < 1 THEN 1 ELSE req.Page

\* ListOrders: the default of 20 and the cap of 100 on the page size
EffectivePageSize(req) ==
  LET defaulted == IF req.PageSize < 1 THEN 20 ELSE req.PageSize
  IN  IF defaulted > 100 THEN 100 ELSE defaulted

\* ListOrders: the repository.ListOptions built from the request
ListOptions(req) ==
  [ Limit |-> EffectivePageSize(req),
    Offset |-> WrapInt(WrapInt(EffectivePage(req) - 1) * EffectivePageSize(req)),
    Status |-> req.Status ]

\* ListOrders: the repository method the request is dispatched to
ListMethod(req) ==
  IF req.CustomerID # NoCustomer /\ req.CustomerID # ""
  THEN MethodFindByCustomerID
  ELSE MethodList

TotalPages_Floor(totalCount, pageSize) == totalCount \div pageSize

\* int(math.Ceil(float64(totalCount) / float64(pageSize))): both operands
\* are exact in float64, and the quotient of a count that is not a multiple
\* of a page size of at most 100 lies strictly between two integers
TotalPages(totalCount, pageSize) ==
  IF totalCount % pageSize = 0
  THEN totalCount \div pageSize
  ELSE (totalCount \div pageSize) + 1

\* ListOrders: the domain.PaginatedOrders returned for the repository's
\* answer (orders, totalCount)
PaginatedOrders(req, orders, totalCount) ==
  [ Data |-> orders,
    Page |-> EffectivePage(req),
    PageSize |-> EffectivePageSize(req),
    TotalCount |-> totalCount,
    TotalPages |-> TotalPages(totalCount, EffectivePageSize(req)) ]

\* the largest total count a repository answers with
MaxTotal == 30

\* (page, pageSize) as the transports pass them: the gRPC request's two
\* int32 fields, and the HTTP handler's (offset / limit + 1, limit) for the
\* largest offsets an int holds
ListPagings ==
  ( { MinWire, 0 - 1, 0, 1, 2, 3, 4, MaxWire }
    \X { MinWire, 0 - 1, 0, 1, 2, 10, 20, 99, 100, 101, MaxWire } )
  \cup { << MaxInt, 1 >>, << (MaxInt \div 100) + 1, 100 >>,
         << (MaxInt \div 7) + 1, 7 >> }

ListStatusInputs == { NoStatus, OrderStatusPending }
ListCustomerInputs == { NoCustomer, "", "cust-1" }

\* ListOrders put once to a repository that answers with some total count;
\* ListOrders passes the repository's orders through untouched
AskListOrders ==
  /\ probe = NoProbe
  /\ \E pg \in ListPagings, st \in ListStatusInputs,
        c \in ListCustomerInputs, total \in 0..MaxTotal :
       LET req == ListOrdersRequest(pg[1], pg[2], st, c)
       IN  probe' = << [ req |-> req,
                         method |-> ListMethod(req),
                         customerID |-> req.CustomerID,
                         opts |-> ListOptions(req),
                         result |-> PaginatedOrders(req, << >>, total) ] >>
  /\ UNCHANGED << db, cache, task, ncalls, hist, feed >>

NextPaging == AskListOrders

SpecPaging == Init /\ [][NextPaging]_vars

\* C19: ListOrders answers with page max(page, 1) and page size 20 below 1,
\* 100 above 100 and the given one otherwise; it passes limit = page size and
\* offset = (page - 1) * page size to the repository, calls FindByCustomerID
\* exactly when a non-empty customer id is given and List otherwise, and
\* reports as total pages the least n with n * page size >= total count
\* (0 for no orders, 3 for 25 orders in pages of 10).
C19_PagingArithmetic ==
  \A i \in 1..Len(probe) :
    LET r == probe[i]
        page == IF r.req.Page > 1 THEN r.req.Page ELSE 1
        size == CASE r.req.PageSize < 1 -> 20
                  [] r.req.PageSize > 100 -> 100
                  [] OTHER -> r.req.PageSize
        total == r.result.TotalCount
    IN  /\ r.result.Page = page
        /\ r.result.PageSize = size
        /\ r.opts.Limit = size
        /\ r.opts.Offset = (page - 1) * size
        /\ r.opts.Status = r.req.Status
        /\ r.method \in { MethodList, MethodFindByCustomerID }
        /\ (r.method = MethodFindByCustomerID)
             <=> (r.req.CustomerID \notin { NoCustomer, "" })
        /\ r.result.TotalPages * size >= total
        /\ (r.result.TotalPages - 1) * size < total
        /\ (total = 0) => (r.result.TotalPages = 0)
        /\ (total = 25 /\ size = 10) => (r.result.TotalPages = 3)

\* page 0 of size 10 asked for customer cust-1 over 25 orders: page 1 of 3
C19_Witness ==
  /\ Len(probe) = 1
  /\ probe[1].req.Page = 0
  /\ probe[1].req.PageSize = 10
  /\ probe[1].req.CustomerID = "cust-1"
  /\ probe[1].method = MethodFindByCustomerID
  /\ probe[1].opts.Offset = 0
  /\ probe[1].result.TotalCount = 25
  /\ probe[1].result.Page = 1
  /\ probe[1].result.TotalPages = 3

\* ------------------------------------------------------- listing the table
\* the call ListOrders makes on the repository: method, customer id and
\* repository.ListOptions
RepoQuery(method, customerID, opts) ==
  [ Method |-> method, CustomerID |-> customerID, Limit |-> opts.Limit,
    Offset |-> opts.Offset, Status |-> opts.Status ]

\* the ids a list query selects: deleted_at IS NULL, the status when one is
\* given, the customer id for FindByCustomerID; the two repositories apply
\* the same three tests
Selected(q) ==
  { o \in DOMAIN db :
      /\ Live(db[o])
      /\ (q.Status # NoStatus) => (db[o].Status = q.Status)
      /\ (q.Method = MethodFindByCustomerID) => (db[o].CustomerID = q.CustomerID) }

\* ORDER BY created_at DESC over the rows of the ids S; created_at is
\* distinct from row to row here
RECURSIVE OrderByCreatedAtDesc(_)
OrderByCreatedAtDesc(S) ==
  IF S = { } THEN << >>
  ELSE LET newest == CHOOSE o \in S :
                       \A u \in S : db[o].CreatedAt >= db[u].CreatedAt
       IN  << db[newest] >> \o OrderByCreatedAtDesc(S \ { newest })

Min(a, b) == IF a <= b THEN a ELSE b

\* LIMIT limit OFFSET offset of a result; also result[start:end] of the
\* in-memory List, whose start and end are capped at len(result)
LimitOffset(rows, limit, offset) ==
  SubSeq(rows, Min(offset, Len(rows)) + 1, Min(offset + limit, Len(rows)))

\* orderRepositoryPostgres.List and FindByCustomerID: the count query and
\* the page query
PostgresList(q) ==
  [ Data |-> LimitOffset(OrderByCreatedAtDesc(Selected(q)), q.Limit, q.Offset),
    TotalCount |-> Cardinality(Selected(q)) ]

ListPageInputs == { 0, 1, 2 }
ListPageSizeInputs == { 1, 2 }
ListFilterInputs == { NoStatus, OrderStatusPending, OrderStatusConfirmed }
ListByInputs == { NoCustomer, "cust-1" }

\* ListOrders over the Postgres repository: one round of two queries
ListOrders(t) ==
  /\ CanStart(t)
  /\ \E page \in ListPageInputs, pageSize \in ListPageSizeInputs,
        st \in ListFilterInputs, c \in ListByInputs :
       LET req == ListOrdersRequest(page, pageSize, st, c)
           q == RepoQuery(ListMethod(req), c, ListOptions(req))
           answer == PostgresList(q)
           tk == [ task[t] EXCEPT !.op = "ListOrders", !.query = q ]
       IN  task' = [ task EXCEPT ![t] =
             Return(tk, PaginatedOrders(req, answer.Data, answer.TotalCount), ErrNone) ]
  /\ UNCHANGED << db, cache, ncalls, hist, probe, feed >>

TwoCustomers == { "cust-1", "cust-2" }

CreateOrderFor(t) == CreateOrderFrom(t, TwoCustomers, CreateItemInputs)

NextList ==
  \/ Invoke(1)
  \/ CreateOrderFor(1)
  \/ UpdateOrderStatus_Find(1)
  \/ RepoUpdate_Exec(1)
  \/ UpdateOrderStatus_CacheDelete(1)
  \/ Publish(1)
  \/ DeleteOrder_Find(1)
  \/ DeleteOrder_Delete(1)
  \/ ListOrders(1)

SpecList == InitCatalog /\ [][NextList]_vars

\* -------------------------------------------------- the in-memory repository
\* the server of cmd/ordersvc keeps the orders in a Go map; its methods are
\* called here one after the other, each under the repository's mutex

\* a call on the repository has returned: the task holds the call and its
\* answer
Called(t, method, q, answer, err) ==
  [ IdleTask EXCEPT !.pc = "done", !.op = method, !.query = q,
                    !.ret = answer, !.err = err ]

\* inMemoryRepository.Create
InMemoryCreate(t) ==
  /\ ncalls < MaxCalls
  /\ Unused # { }
  /\ \E c \in TwoCustomers, dtoItems \in CreateItemInputs :
       LET order == [ NewOrder(FreshID, c, dtoItems, Now) EXCEPT !.Version = 1 ]
       IN  /\ db' = [ db EXCEPT ![FreshID] = order ]
           /\ task' = [ task EXCEPT ![t] = Called(t, "Create", Nil, order, ErrNone) ]
  /\ ncalls' = ncalls + 1
  /\ UNCHANGED << cache, hist, probe, feed >>

\* inMemoryRepository.Update with the copy FindByID gave, its status changed
InMemoryUpdate(t) ==
  /\ ncalls < MaxCalls
  /\ \E id \in IDs, st \in ListFilterInputs \ { NoStatus } :
       IF Live(db[id])
       THEN LET order == [ db[id] EXCEPT !.Status = st, !.Version = @ + 1 ]
            IN  /\ db' = [ db EXCEPT ![id] = order ]
                /\ task' = [ task EXCEPT ![t] = Called(t, "Update", Nil, order, ErrNone) ]
       ELSE /\ task' = [ task EXCEPT ![t] = Called(t, "Update", Nil, Nil, ErrOrderNotFound) ]
            /\ UNCHANGED db
  /\ ncalls' = ncalls + 1
  /\ UNCHANGED << cache, hist, probe, feed >>

\* inMemoryRepository.Delete: DeletedAt set, the entry stays in the map
InMemoryDelete(t) ==
  /\ ncalls < MaxCalls
  /\ \E id \in IDs :
       IF Live(db[id])
       THEN /\ db' = [ db EXCEPT ![id] = [ @ EXCEPT !.Deleted = TRUE ] ]
            /\ task' = [ task EXCEPT ![t] = Called(t, "Delete", Nil, Nil, ErrNone) ]
       ELSE /\ task' = [ task EXCEPT ![t] = Called(t, "Delete", Nil, Nil, ErrOrderNotFound) ]
            /\ UNCHANGED db
  /\ ncalls' = ncalls + 1
  /\ UNCHANGED << cache, hist, probe, feed >>

\* for _, order := range r.orders: Go visits the entries of a map in an
\* order it does not specify; every order of the selected rows can result
RangeOverMap(S) ==
  { [ i \in 1..Cardinality(S) |-> db[f[i]] ] :
      f \in { g \in [ 1..Cardinality(S) -> S ] :
                \A i, j \in 1..Cardinality(S) : (i # j) => (g[i] # g[j]) } }

ListLimitInputs == { 1, 2 }
ListOffsetInputs == { 0, 1, 3 }

\* inMemoryRepository.List: filter, count, result[start:end]
InMemoryList(t) ==
  /\ ncalls < MaxCalls
  /\ \E limit \in ListLimitInputs, offset \in ListOffsetInputs,
        st \in ListFilterInputs :
       LET q == RepoQuery(MethodList, NoCustomer,
                          [ Limit |-> limit, Offset |-> offset, Status |-> st ])
       IN  \E result \in RangeOverMap(Selected(q)) :
             task' = [ task EXCEPT ![t] = Called(t, MethodList, q,
               [ Data |-> LimitOffset(result, limit, offset),
                 TotalCount |-> Len(result) ], ErrNone) ]
  /\ ncalls' = ncalls + 1
  /\ UNCHANGED << db, cache, hist, probe, feed >>

\* inMemoryRepository.FindByCustomerID: filter, count, the whole result
InMemoryFindByCustomerID(t) ==
  /\ ncalls < MaxCalls
  /\ \E limit \in ListLimitInputs, offset \in ListOffsetInputs,
        st \in ListFilterInputs, c \in TwoCustomers :
       LET q == RepoQuery(MethodFindByCustomerID, c,
                          [ Limit |-> limit, Offset |-> offset, Status |-> st ])
       IN  \E result \in RangeOverMap(Selected(q)) :
             task' = [ task EXCEPT ![t] = Called(t, MethodFindByCustomerID, q,
               [ Data |-> result, TotalCount |-> Len(result) ], ErrNone) ]
  /\ ncalls' = ncalls + 1
  /\ UNCHANGED << db, cache, hist, probe, feed >>

NextInMemory ==
  \/ InMemoryCreate(1)
  \/ InMemoryUpdate(1)
  \/ InMemoryDelete(1)
  \/ InMemoryList(1)
  \/ InMemoryFindByCustomerID(1)

SpecInMemory == InitCatalog /\ [][NextInMemory]_vars

\* a list call of task t has returned
Listed(t) ==
  /\ task[t].pc = "done"
  /\ task[t].query # Nil
  /\ task[t].err = ErrNone

\* the live orders a returned list call had to choose from
Matching(t) ==
  { o \in DOMAIN db :
      /\ db[o] # NoRow
      /\ ~db[o].Deleted
      /\ task[t].query.Status \in { NoStatus, db[o].Status }
      /\ \/ task[t].query.Method = MethodList
         \/ task[t].query.CustomerID = db[o].CustomerID }

\* C20: a returned List or FindByCustomerID call holds the count of all live
\* orders matching its filter, and its orders are stored live matching rows,
\* min(limit, count - offset) of them, the i-th one having exactly
\* offset + i - 1 matching orders created after it.
C20_ListReturnsNewestFirstPage ==
  \A t \in Tasks :
    Listed(t) =>
      LET q == task[t].query
          data == task[t].ret.Data
          count == Cardinality(Matching(t))
      IN  /\ task[t].ret.TotalCount = count
          /\ Len(data) = Min(q.Limit, Max(count - q.Offset, 0))
          /\ \A i \in 1..Len(data) :
               /\ data[i].ID \in Matching(t)
               /\ data[i] = db[data[i].ID]
               /\ Cardinality({ o \in Matching(t) :
                                  db[o].CreatedAt > data[i].CreatedAt })
                    = q.Offset + i - 1

\* ------------------------------------------------------------ the transports
\* net/http status codes the HTTP handlers write
StatusOK == 200
StatusCreated == 201
StatusNoContent == 204
StatusBadRequest == 400
StatusNotFound == 404
StatusConflict == 409
StatusInternalServerError == 500

\* errors.go declares ErrOrderAlreadyDeleted; nothing returns it
ErrOrderAlreadyDeleted == "order is already deleted"

HttpTransport == "http"
GrpcTransport == "grpc"

\* handleServiceError: the switch over errors.Is
handleServiceError(err) ==
  CASE err = ErrOrderNotFound -> StatusNotFound
    [] err = ErrInvalidTransition -> StatusBadRequest
    [] err = ErrConcurrentModification -> StatusConflict
    [] err = ErrInvalidCustomerID -> StatusBadRequest
    [] err = ErrNoItems -> StatusBadRequest
    [] err = ErrOrderAlreadyDeleted -> StatusNotFound
    [] OTHER -> StatusInternalServerError

\* domainToGRPCError: the switch over the error value
domainToGRPCError(err) ==
  CASE err = ErrOrderNotFound -> "NotFound"
    [] err \in { ErrInvalidCustomerID, ErrNoItems, ErrInvalidQuantity,
                 ErrInvalidPrice, ErrInvalidProductID, ErrInvalidProductName,
                 ErrInvalidTransition } -> "InvalidArgument"
    [] err = ErrConcurrentModification -> "Aborted"
    [] OTHER -> "Internal"

\* the status an HTTP handler writes when the service returned no error
HttpSuccess(op) ==
  CASE op = "CreateOrder" -> StatusCreated
    [] op = "DeleteOrder" -> StatusNoContent
    [] OTHER -> StatusOK

\* the service calls the HTTP handlers make: each handler answers 400 itself,
\* without calling the service, for an empty customer id or item list
HttpCalls(tk) ==
  CASE tk.op = "CreateOrder" -> tk.customerID # "" /\ Len(tk.items) > 0
    [] tk.op = "UpdateOrder" -> Len(tk.items) > 0 /\ tk.newStatus = NoStatus
    [] tk.op = "UpdateOrderStatus" -> TRUE
    [] tk.op = "DeleteOrder" -> TRUE
    [] tk.op = "GetOrderByID" -> TRUE
    [] OTHER -> FALSE

\* the service calls the gRPC handlers make
GrpcCalls(tk) == tk.op = "GetOrderByID"

\* an HTTP handler writes its response after the service has returned
HttpRespond(t) ==
  /\ task[t].pc = "done"
  /\ task[t].resp = Nil
  /\ HttpCalls(task[t])
  /\ task' = [ task EXCEPT ![t].resp =
       [ transport |-> HttpTransport,
         code |-> IF task[t].err = ErrNone THEN HttpSuccess(task[t].op)
                  ELSE handleServiceError(task[t].err) ] ]
  /\ UNCHANGED << db, cache, ncalls, hist, probe, feed >>

\* a gRPC handler returns after the service has returned
GrpcRespond(t) ==
  /\ task[t].pc = "done"
  /\ task[t].resp = Nil
  /\ GrpcCalls(task[t])
  /\ task' = [ task EXCEPT ![t].resp =
       [ transport |-> GrpcTransport,
         code |-> IF task[t].err = ErrNone THEN "OK"
                  ELSE domainToGRPCError(task[t].err) ] ]
  /\ UNCHANGED << db, cache, ncalls, hist, probe, feed >>

\* request bodies of POST /api/v1/orders: a valid one and one per defect
TransportCustomerInputs == { "", "cust-1" }
TransportItemInputs ==
  { << >>, << DtoItem("p1", 2, 1050) >>,
    << Item("", "widget", 1, 100) >>, << Item("p1", "", 1, 100) >>,
    << Item("p1", "widget", 0, 100) >>, << Item("p1", "widget", 1, 0) >> }

CreateOrderVia(t) == CreateOrderFrom(t, TransportCustomerInputs, TransportItemInputs)

NextTransport ==
  \/ \E t \in Tasks : Invoke(t)
  \/ \E t \in Tasks : CreateOrderVia(t)
  \/ \E t \in Tasks : GetOrderByID_CacheGet(t)
  \/ \E t \in Tasks : GetOrderByID_Find(t)
  \/ \E t \in Tasks : GetOrderByID_CacheSet(t)
  \/ \E t \in Tasks : UpdateOrderStatus_Find(t)
  \/ \E t \in Tasks : UpdateOrder_Find(t)
  \/ \E t \in Tasks : RepoUpdate_Exec(t)
  \/ \E t \in Tasks : RepoUpdate_Exists(t)
  \/ \E t \in Tasks : UpdateOrderStatus_CacheDelete(t)
  \/ \E t \in Tasks : DeleteOrder_Find(t)
  \/ \E t \in Tasks : DeleteOrder_Delete(t)
  \/ \E t \in Tasks : HttpRespond(t)
  \/ \E t \in Tasks : GrpcRespond(t)

SpecTransport == Init /\ [][NextTransport]_vars

\* the class the contract gives an error of the service
NotFoundClass == { ErrOrderNotFound }
BadRequestClass ==
  { ErrInvalidTransition, ErrInvalidCustomerID, ErrNoItems, ErrInvalidProductID,
    ErrInvalidProductName, ErrInvalidQuantity, ErrInvalidPrice }
ConflictClass == { ErrConcurrentModification }

\* C21: a response to a call that failed with NotFound is 404 / NotFound,
\* with InvalidTransition or a validation error 400 / InvalidArgument, with
\* ConcurrentModification 409 / Aborted, on both transports.
C21_ErrorClasses ==
  \A t \in Tasks :
    ( task[t].resp # Nil /\ task[t].err # ErrNone ) =>
      LET code == task[t].resp.code
          http == task[t].resp.transport = HttpTransport
      IN  /\ (task[t].err \in NotFoundClass) =>
               (code = IF http THEN 404 ELSE "NotFound")
          /\ (task[t].err \in BadRequestClass) =>
               (code = IF http THEN 400 ELSE "InvalidArgument")
          /\ (task[t].err \in ConflictClass) =>
               (code = IF http THEN 409 ELSE "Aborted")

\* ------------------------------------------------- the publisher on its own
EventOrderUpdated == "order.updated"

\* Publisher.PublishOrderUpdated: the record built from the order
OrderUpdatedEvent(order) ==
  [ OrderCreatedEvent(order) EXCEPT !.EventType = EventOrderUpdated ]

\* the largest number of records the topic holds in these runs
MaxRecords == 3

Records == LET total[S \in SUBSET DOMAIN log] ==
                 IF S = { } THEN 0
                 ELSE LET o == CHOOSE x \in S : TRUE
                      IN  Len(log[o]) + total[S \ { o }]
           IN  total[DOMAIN log]

\* the orders handed to the publisher: any id, two stages of a life
PublishedOrders ==
  { [ NewOrder(id, "cust-1", << DtoItem("p1", 2, 1050) >>, 1)
        EXCEPT !.Status = sv[1], !.Version = sv[2] ] :
      id \in DOMAIN log,
      sv \in { << OrderStatusPending, 1 >>, << OrderStatusConfirmed, 2 >> } }

MessageKey_Constant(order) == 1

\* the key of the message: order.ID.String()
MessageKey(order) == order.ID

\* the three methods of Publisher, each ending in p.publish, which writes
\* one message or fails
Written(order, evt) ==
  /\ publisher = KafkaPublisher
  /\ Records < MaxRecords
  /\ \E failed \in BOOLEAN : log' = publish(log, MessageKey(order), evt, failed)
  /\ UNCHANGED << db, cache, task, ncalls, hist, probe, publisher, lost, subs >>

PublishOrderCreated ==
  \E order \in PublishedOrders : Written(order, OrderCreatedEvent(order))

PublishOrderUpdated ==
  \E order \in PublishedOrders : Written(order, OrderUpdatedEvent(order))

PublishOrderStatusChanged ==
  \E order \in PublishedOrders, old \in { OrderStatusPending } :
    Written(order, OrderStatusChangedEvent(order, old, order.Status))

NextPublisher ==
  \/ PublishOrderCreated
  \/ PublishOrderUpdated
  \/ PublishOrderStatusChanged

SpecPublisher == InitCatalog /\ [][NextPublisher]_vars

\* C26: every record of the topic lies under the key that is the order id
\* its event carries, so the events of one order are all under one key.
C26_KeyIsOrderID ==
  \A k \in DOMAIN log :
    \A i \in 1..Len(log[k]) : log[k][i].OrderID = k

\* a created, an updated and a status changed event of order 2 lie under
\* key 2
C26_Witness ==
  /\ Len(log[2]) = 3
  /\ { log[2][i].EventType : i \in 1..3 } =
       { EventOrderCreated, EventOrderUpdated, EventOrderStatusChanged }
  /\ \A i \in 1..3 : log[2][i].OrderID = 2

\* ----------------------------------------------------------- WatchOrders
\* a record of the topic whose value is not the JSON of an event
NotJSON == [ malformed |-> TRUE ]

\* some other producer writes such a record
ForeignWrite ==
  /\ publisher = KafkaPublisher
  /\ Records < MaxRecords
  /\ \E o \in DOMAIN log : log' = [ log EXCEPT ![o] = Append(@, NotJSON) ]
  /\ UNCHANGED << db, cache, task, ncalls, hist, probe, publisher, lost, subs >>

\* json.Unmarshal(msg.Value, &evt) returns no error
Parses(value) == "malformed" \notin DOMAIN value

\* a field of the JSON object, or the zero value when the object lacks it
FieldOr(value, name, zero) == IF name \in DOMAIN value THEN value[name] ELSE zero

\* json.Unmarshal into a messaging.OrderEvent
UnmarshalEvent(value) ==
  [ EventType  |-> FieldOr(value, "EventType", ""),
    OrderID    |-> FieldOr(value, "OrderID", 0),
    CustomerID |-> FieldOr(value, "CustomerID", ""),
    Status     |-> FieldOr(value, "Status", ""),
    OldStatus  |-> FieldOr(value, "OldStatus", ""),
    NewStatus  |-> FieldOr(value, "NewStatus", ""),
    Total      |-> FieldOr(value, "Total", 0),
    Version    |-> FieldOr(value, "Version", 0) ]

\* the orderv1.OrderEvent built from the event
ProtoEvent(evt) ==
  [ EventType  |-> evt.EventType,
    OrderId    |-> evt.OrderID,
    CustomerId |-> evt.CustomerID,
    Status     |-> evt.Status,
    OldStatus  |-> evt.OldStatus,
    NewStatus  |-> evt.NewStatus,
    Total      |-> evt.Total,
    Version    |-> evt.Version ]

PassesFilter_NewStatus(evt, statusFilter) ==
  statusFilter = { } \/ evt.NewStatus \in statusFilter

\* the status filter: an empty set lets every event pass
PassesFilter(evt, statusFilter) ==
  statusFilter = { } \/ evt.Status \in statusFilter

\* kafka.ReaderConfig sets no StartOffset: a group without a committed offset
\* on a partition starts at kafka.FirstOffset, the oldest record
StartOffset(o) == 0

\* the sessions whose reader is a member of group g
Members(g) ==
  { w \in Watchers : watch[w].pc \in { "read", "send" } /\ watch[w].group = g }

\* the assignments of the partitions a rebalance of members M can produce
Assignments(M) ==
  IF M = { } THEN { [ o \in DOMAIN log |-> 0 ] } ELSE [ DOMAIN log -> M ]

\* the statuses field of a WatchOrdersRequest
StatusFilters == { { }, { OrderStatusConfirmed } }

\* the handler has returned: the deferred reader.Close leaves the group
Ended(w, ret) == [ watch[w] EXCEPT !.pc = "ended", !.ret = ret ]

\* the group of session w after w has left it
Left(w) ==
  { [ groups EXCEPT ![watch[w].group].owner = a ] :
      a \in Assignments(Members(watch[w].group) \ { w }) }

\* WatchOrders is called: Unavailable without brokers; otherwise a reader
\* in the consumer group named by the first eight hex digits of a new uuid
WatchOrders(w) ==
  /\ watch[w].pc = "idle"
  /\ IF publisher = NoPublisher
     THEN /\ watch' = [ watch EXCEPT ![w] = Ended(w, "Unavailable") ]
          /\ UNCHANGED groups
     ELSE \E g \in GroupSuffixes, statuses \in StatusFilters :
          \E a \in Assignments(Members(g) \cup { w }) :
            LET offset == [ o \in DOMAIN log |->
                             IF groups[g].offset[o] < 0 THEN StartOffset(o)
                             ELSE groups[g].offset[o] ]
            IN  /\ groups' = [ groups EXCEPT ![g] = [ offset |-> offset, owner |-> a ] ]
                /\ watch' = [ watch EXCEPT ![w] =
                     [ IdleWatch EXCEPT !.pc = "read", !.group = g,
                                        !.statuses = statuses,
                                        !.tail = [ o \in DOMAIN log |-> Len(log[o]) ],
                                        !.start = offset ] ]
  /\ UNCHANGED << db, cache, task, ncalls, hist, probe, publisher, log, lost >>

\* the client disconnects: stream.Context() is cancelled
WatchCancel(w) ==
  /\ watch[w].pc \in { "read", "send" }
  /\ ~watch[w].cancelled
  /\ watch' = [ watch EXCEPT ![w].cancelled = TRUE ]
  /\ UNCHANGED << db, cache, task, ncalls, hist, probe, publisher, log, lost, groups >>

\* the loop body after ReadMessage returned value: skip a record that does
\* not parse or does not pass the filter, otherwise go on to stream.Send
AfterRead(ws, value) ==
  IF ~Parses(value) THEN ws
  ELSE IF ~PassesFilter(UnmarshalEvent(value), ws.statuses) THEN ws
  ELSE [ ws EXCEPT !.pc = "send", !.pending = ProtoEvent(UnmarshalEvent(value)) ]

\* reader.ReadMessage(ctx) returns an error: nil for the handler when the
\* context is cancelled, Internal otherwise
WatchReadFails(w) ==
  /\ watch[w].pc = "read"
  /\ \E groupsAfter \in Left(w) :
       /\ groups' = groupsAfter
       /\ watch' = [ watch EXCEPT ![w] =
            Ended(w, IF watch[w].cancelled THEN "nil" ELSE "Internal") ]
  /\ UNCHANGED << db, cache, task, ncalls, hist, probe, publisher, log, lost >>

\* reader.ReadMessage(ctx) returns the next record of a partition the
\* session's reader owns and commits its offset
WatchRead(w) ==
  /\ watch[w].pc = "read"
  /\ ~watch[w].cancelled
  /\ \E o \in DOMAIN log :
       LET g == watch[w].group
           at == groups[g].offset[o]
       IN  /\ groups[g].owner[o] = w
           /\ at < Len(log[o])
           /\ groups' = [ groups EXCEPT ![g].offset[o] = at + 1 ]
           /\ watch' = [ watch EXCEPT ![w] =
                AfterRead([ watch[w] EXCEPT !.seen = Append(@,
                              [ partition |-> o, offset |-> at + 1,
                                value |-> log[o][at + 1] ]) ],
                          log[o][at + 1]) ]
  /\ UNCHANGED << db, cache, task, ncalls, hist, probe, publisher, log, lost >>

\* stream.Send(protoEvt): the event reaches the watcher, or Send fails and
\* the handler returns its error
WatchSend(w) ==
  /\ watch[w].pc = "send"
  /\ \E failed \in BOOLEAN :
       IF failed
       THEN \E groupsAfter \in Left(w) :
              /\ groups' = groupsAfter
              /\ watch' = [ watch EXCEPT ![w] = Ended(w, "SendError") ]
       ELSE /\ watch' = [ watch EXCEPT ![w] =
                 [ watch[w] EXCEPT !.pc = "read", !.pending = Nil,
                                   !.sent = Append(@, watch[w].pending) ] ]
            /\ UNCHANGED groups
  /\ UNCHANGED << db, cache, task, ncalls, hist, probe, publisher, log, lost >>

\* a server with or without Kafka brokers configured
InitWatch == Init \/ InitEvents

\* one WatchOrders stream beside the producers of the topic
NextWatch ==
  \/ PublishOrderCreated
  \/ PublishOrderStatusChanged
  \/ ForeignWrite
  \/ WatchOrders(1)
  \/ WatchCancel(1)
  \/ WatchRead(1)
  \/ WatchReadFails(1)
  \/ WatchSend(1)

SpecWatch == InitWatch /\ [][NextWatch]_vars

\* concurrent WatchOrders streams that stay connected
NextWatchers ==
  \/ PublishOrderCreated
  \/ \E w \in Watchers : WatchOrders(w)
  \/ \E w \in Watchers : WatchRead(w)
  \/ \E w \in Watchers : WatchReadFails(w)
  \/ \E w \in Watchers : WatchSend(w)

SpecWatchers == InitEvents /\ [][NextWatchers]_vars

\* ---------------------------------------------------- claims about watchers
\* the events session w has handed to stream.Send, the one in flight included
Forwarded(w) ==
  watch[w].sent \o (IF watch[w].pending # Nil THEN << watch[w].pending >> ELSE << >>)

\* the records session w has read that are events with a wanted status
Wanted(w) ==
  SelectSeq(watch[w].seen,
            LAMBDA r : /\ "malformed" \notin DOMAIN r.value
                       /\ \/ watch[w].statuses = { }
                          \/ r.value.Status \in watch[w].statuses)

\* session w reads a record that is not an event in this step
ReadsNotJSON(w) ==
  /\ Len(watch'[w].seen) = Len(watch[w].seen) + 1
  /\ "malformed" \in DOMAIN watch'[w].seen[Len(watch'[w].seen)].value

\* C22: what a session has forwarded is, record for record and in the order
\* read, the events among the records it has read whose status is in its
\* filter (all events for an empty filter); reading a record that does not
\* parse sends nothing and leaves the stream open.
C22_ForwardsWantedEvents ==
  /\ [](\A w \in Watchers :
         /\ Len(Forwarded(w)) = Len(Wanted(w))
         /\ \A i \in 1..Len(Wanted(w)) :
              LET e == Forwarded(w)[i]
                  v == Wanted(w)[i].value
              IN  /\ e.EventType = v.EventType
                  /\ e.OrderId = v.OrderID
                  /\ e.CustomerId = v.CustomerID
                  /\ e.Status = v.Status
                  /\ e.OldStatus = v.OldStatus
                  /\ e.NewStatus = v.NewStatus
                  /\ e.Total = v.Total
                  /\ e.Version = v.Version)
  /\ [][ \A w \in Watchers :
           ReadsNotJSON(w) =>
             /\ watch'[w].pc = "read"
             /\ watch'[w].ret = ""
             /\ watch'[w].sent = watch[w].sent
             /\ watch'[w].pending = Nil ]_vars

\* a session filtering on confirmed has read a record that is no JSON, a
\* pending event and a confirmed event, and has sent the confirmed one only
C22_Witness ==
  /\ watch[1].pc = "read"
  /\ watch[1].statuses = { OrderStatusConfirmed }
  /\ Len(watch[1].seen) = 3
  /\ watch[1].seen[1].value = NotJSON
  /\ watch[1].seen[2].value # NotJSON
  /\ watch[1].seen[3].value # NotJSON
  /\ watch[1].seen[2].value.Status = OrderStatusPending
  /\ watch[1].seen[3].value.Status = OrderStatusConfirmed
  /\ Len(watch[1].sent) = 1
  /\ watch[1].sent[1].Status = OrderStatusConfirmed
  /\ watch[1].sent[1].EventType = EventOrderStatusChanged

\* the records session w has read from partition o, as offsets
ReadFrom(w, o) ==
  SelectSeq([ i \in 1..Len(watch[w].seen) |->
                IF watch[w].seen[i].partition = o THEN watch[w].seen[i].offset ELSE 0 ],
            LAMBDA n : n > 0)

\* C23: an open session has a read position of its own: on every partition
\* it has read the records from its starting position on, each once and in
\* order, and the next record it is given is the one after the last it read,
\* whatever the other sessions do.
C23_OwnReadPosition ==
  \A w \in Watchers :
    watch[w].pc \in { "read", "send" } =>
      \A o \in DOMAIN log :
        LET mine == ReadFrom(w, o)
            g == watch[w].group
        IN  /\ \A i \in 1..Len(mine) : mine[i] = watch[w].start[o] + i
            /\ groups[g].offset[o] = watch[w].start[o] + Len(mine)
            /\ groups[g].owner[o] = w

\* C24: every record a session reads was written after the session was
\* opened: its offset lies beyond the length the partition had at that time.
C24_OnlyEventsAfterOpen ==
  \A w \in Watchers :
    \A i \in 1..Len(watch[w].seen) :
      watch[w].seen[i].offset > watch[w].tail[watch[w].seen[i].partition]

\* C25: without brokers a session ends with Unavailable and has read
\* nothing; a session whose context was cancelled ends with no error; every
\* other end is an error of a read or of a send.
C25_WatchEnds ==
  \A w \in Watchers :
    /\ (publisher = NoPublisher /\ watch[w].pc # "idle") =>
         /\ watch[w].pc = "ended"
         /\ watch[w].ret = "Unavailable"
         /\ watch[w].seen = << >>
    /\ watch[w].pc = "ended" =>
         /\ watch[w].ret \in { "Unavailable", "nil", "Internal", "SendError" }
         /\ (watch[w].ret = "Unavailable") <=> (publisher = NoPublisher)
         /\ (watch[w].ret = "nil") <=> watch[w].cancelled

\* ------------------------------------------------------ claims about retries
\* C27: an UpdateOrder or UpdateOrderStatus call reads the order once and
\* attempts the update at most once: after its first step the order it read
\* never changes and the call never comes back to the update; when the
\* update matched no row the call ends at once with the error of the
\* repository, NotFound when there is no row of that id and
\* ConcurrentModification otherwise, and with no order.
C27_NoRetry ==
  [][ \A t \in Tasks :
        task[t].op \in Updates =>
          /\ task[t].pc \in { "repo_update", "repo_exists", "us_cachedel" } =>
               /\ task'[t].read = task[t].read
               /\ task'[t].op = task[t].op
          /\ (task'[t].pc = "repo_update" /\ task'[t] # task[t]) =>
               task[t].pc = "called"
          /\ (task[t].pc = "repo_exists" /\ task'[t] # task[t]) =>
               /\ task'[t].pc = "done"
               /\ task'[t].ret = Nil
               /\ task'[t].err = IF db[task[t].id] = NoRow
                                 THEN ErrOrderNotFound
                                 ELSE ErrConcurrentModification ]_vars

\* a call that read an order and attempted the update has ended with
\* ConcurrentModification, the order having been changed by the other call
C27_Witness ==
  \E t \in Tasks :
    /\ task[t].pc = "done" /\ task[t].op \in Updates
    /\ task[t].read # Nil /\ task[t].err = ErrConcurrentModification
    /\ db[task[t].id].Version > task[t].read.Version

\* -------------------------------------------- claims about UpdateOrder input
\* C28: an UpdateOrder whose input has an item with an empty product id,
\* empty name, quantity <= 0 or price <= 0 ends with one of the validation
\* errors its items call for and no order, without having read the order
\* from the table, whether or not the order exists.
C28_UpdateRejectsBadItemFirst ==
  \A t \in Tasks :
    LET bad == UNION { ItemProblems(task[t].items[k]) : k \in 1..Len(task[t].items) }
    IN  ( task[t].pc = "done" /\ task[t].op = "UpdateOrder" /\ bad # { } ) =>
          /\ task[t].err \in bad
          /\ task[t].ret = Nil
          /\ task[t].read = Nil

\* ------------------------------------------------ claims about DeleteOrder
\* C29: a DeleteOrder that read the order at version v, and finds at its
\* write that an UpdateOrder or UpdateOrderStatus has committed a later
\* version in between, fails with ConcurrentModification and does not mark
\* the order deleted.
C29_DeleteIsVersionGuarded ==
  \A t \in Tasks :
    ( /\ task[t].pc = "done" /\ task[t].op = "DeleteOrder" /\ task[t].read # Nil
      /\ \E i \in 1..Len(commits[task[t].id]) :
           /\ commits[task[t].id][i].kind = "update"
           /\ commits[task[t].id][i].version > task[t].read.Version ) =>
      /\ task[t].err = ErrConcurrentModification
      /\ ~task[t].wrote

\* ----------------------------------------------- claims about GetOrderByID
\* task t makes the first round trip of a GetOrderByID in this step
GetStep(t) == task[t].pc = "called" /\ task'[t].op = "GetOrderByID"

C31_AtMostOneStaleRead ==
  \A t \in Tasks :
    ( /\ Done(t, "GetOrderByID")
      /\ task[t].afterVer # 0
      /\ invalidatedVer[task[t].id] < task[t].afterVer
      /\ Live(db[task[t].id])
      /\ db[task[t].id].Version = task[t].afterVer
      /\ task[t].prev # Nil
      /\ task[t].prev.ver = task[t].afterVer
      /\ task[t].prev.order.Version < task[t].afterVer )
    => /\ task[t].err = ErrNone
       /\ task[t].ret # Nil
       /\ task[t].ret.Version = task[t].afterVer

\* the last write committed to order o came from an UpdateOrder that gave
\* items and no status
LastWriteIsItemsUpdate(o) ==
  /\ Len(commits[o]) > 0
  /\ commits[o][Len(commits[o])].kind = "update"
  /\ ~commits[o][Len(commits[o])].statusReq

\* C32: with calls made one after another, a GetOrderByID made after a
\* successful UpdateOrder with new items, that write being the last one to
\* the order, returns the items, total and version that UpdateOrder stored,
\* whether or not an earlier GetOrderByID had cached the order.
C32_ReadAfterUpdateOrderIsFresh ==
  \A t \in Tasks :
    ( /\ Done(t, "GetOrderByID")
      /\ Live(db[task[t].id])
      /\ LastWriteIsItemsUpdate(task[t].id)
      /\ task[t].startVer = db[task[t].id].Version )
    => /\ task[t].err = ErrNone
       /\ task[t].ret # Nil
       /\ task[t].ret.Items = db[task[t].id].Items
       /\ task[t].ret.Total = db[task[t].id].Total
       /\ task[t].ret.Version = db[task[t].id].Version

\* ------------------------------------------- two runs that differ in the cache
\* the order of the two runs as it stands at version v: created pending,
\* confirmed at version 2, soft-deleted at version 3
PairRow(o, v) ==
  LET created == CreatedRow(NewOrder(o, "cust-1", << DtoItem("p1", 2, 1050) >>, 1))
  IN  IF v = 1 THEN created
      ELSE IF v = 2 THEN [ created EXCEPT !.Status = OrderStatusConfirmed, !.Version = 2 ]
      ELSE [ created EXCEPT !.Status = OrderStatusConfirmed, !.Version = 3,
                            !.Deleted = TRUE ]

PairVersions == 1..3

\* what the cache can hold for the order at version v: nothing, or the order
\* as a GetOrderByID found it at that or an earlier version
PairEntries(o, v) ==
  { NoEntry } \cup { Marshal(PairRow(o, w)) : w \in 1..(IF v = 3 THEN 2 ELSE v) }

\* two runs of the service side by side: run r works on the order of id r,
\* both orders are the same order but for the id, and the caches of the two
\* runs hold any entry
InitPair ==
  \E v \in PairVersions :
    /\ db = [ o \in 1..2 |-> PairRow(o, v) ]
    /\ cache \in [ 1..2 -> PairEntries(1, v) \cup PairEntries(2, v) ]
    /\ \A o \in 1..2 : cache[o] \in PairEntries(o, v)
    /\ task = [ t \in Tasks |-> IdleTask ]
    /\ ncalls = 0
    /\ commits = [ o \in 1..2 |->
                   << [ task |-> o, kind |-> "create", statusReq |-> TRUE,
                        status |-> OrderStatusPending, version |-> 1,
                        row |-> PairRow(o, 1) ] >> ]
    /\ okUpdates = [ o \in 1..2 |-> 0 ]
    /\ returnedVer = [ o \in 1..2 |-> 0 ]
    /\ invalidatedVer = [ o \in 1..2 |-> 0 ]
    /\ lastGet = [ o \in 1..2 |-> Nil ]
    /\ notFoundSeen = [ o \in 1..2 |-> FALSE ]
    /\ probe = NoProbe
    /\ publisher = NoPublisher
    /\ log = [ o \in 1..2 |-> << >> ]
    /\ lost = [ o \in 1..2 |-> 0 ]
    /\ watch = [ w \in Watchers |-> IdleWatch ]
    /\ groups = [ g \in GroupSuffixes |-> NoGroup ]

\* run r is given one call
InvokeOnce(r) == task[r].pc = "idle" /\ Invoke(r)

\* one mutation per run, run r calling on the order of id r
NextPair ==
  \E r \in 1..2 :
    \/ InvokeOnce(r)
    \/ UpdateOrderStatus_Find(r) /\ task'[r].id = r
    \/ UpdateOrder_Find(r) /\ task'[r].id = r
    \/ RepoUpdate_Exec(r)
    \/ UpdateOrderStatus_CacheDelete(r)
    \/ DeleteOrder_Find(r) /\ task'[r].id = r
    \/ DeleteOrder_Delete(r)

SpecPair == InitPair /\ [][NextPair]_vars

\* an order without its id
Anonymous(order) == IF order = Nil \/ order = NoRow THEN order ELSE [ order EXCEPT !.ID = 0 ]

\* the two runs have completed the same call
SameCallDone ==
  /\ task[1].pc = "done" /\ task[2].pc = "done"
  /\ task[1].op = task[2].op
  /\ task[1].newStatus = task[2].newStatus
  /\ task[1].items = task[2].items

\* C33: two runs that start with the same table and any two caches and make
\* the same UpdateOrder, UpdateOrderStatus or DeleteOrder call end with the
\* same error, the same returned order and the same row.
C33_MutationsIgnoreCache ==
  SameCallDone =>
    /\ task[1].err = task[2].err
    /\ Anonymous(task[1].ret) = Anonymous(task[2].ret)
    /\ Anonymous(db[1]) = Anonymous(db[2])

\* the same successful call was made by a run with an empty cache and by a
\* run whose cache holds the order as it was before the latest write
C33_Witness ==
  /\ SameCallDone
  /\ task[1].err = ErrNone
  /\ task[1].op \in Updates
  /\ db[1].Version = 3
  /\ cache[1] = NoEntry
  /\ cache[2] = Marshal(PairRow(2, 1))

\* ------------------------------------------------- claims about cache content
\* C34: every cache entry, decoded, is the row of the order of its key as
\* some write committed it: same id, a version not above the stored one, and
\* the customer, items, total and status that were stored at that version.
C34_CacheHoldsCommittedStates ==
  \A o \in IDs :
    cache[o] # NoEntry =>
      LET cached == Unmarshal(cache[o])
      IN  /\ cached.ID = o
          /\ db[o] # NoRow
          /\ cached.Version <= db[o].Version
          /\ \E i \in 1..Len(commits[o]) :
               /\ commits[o][i].version = cached.Version
               /\ commits[o][i].row = cached

\* the cache holds an order two versions behind its row, with the items and
\* the status it had then
C34_Witness ==
  \E o \in IDs :
    /\ cache[o] # NoEntry
    /\ db[o] # NoRow
    /\ Unmarshal(cache[o]).Version + 2 = db[o].Version
    /\ Unmarshal(cache[o]).Items # db[o].Items
    /\ Unmarshal(cache[o]).Status # db[o].Status

\* ----------------------------------------------- events and the writes behind
\* concurrent CreateOrder calls with any input, valid or not, and
\* UpdateOrderStatus calls, on the service with the Kafka publisher
NextEventsAny ==
  \/ \E t \in Tasks : Invoke(t)
  \/ \E t \in Tasks : CreateOrderAny(t)
  \/ \E t \in Tasks : UpdateOrderStatus_Find(t)
  \/ \E t \in Tasks : RepoUpdate_Exec(t)
  \/ \E t \in Tasks : RepoUpdate_Exists(t)
  \/ \E t \in Tasks : UpdateOrderStatus_CacheDelete(t)
  \/ \E t \in Tasks : Publish(t)

SpecEventsAny == InitEvents /\ [][NextEventsAny]_vars

\* C35: every created event in the log carries the id of a stored order and
\* the version its creation committed; every status_changed event with
\* version n, old and new status has behind it the committed update that
\* produced version n with status new from a row of status old; the log grows
\* only by the publish of a call whose write is committed and that has no
\* error, and a call that ends with an error has published nothing.
C35_EventsFollowCommits ==
  /\ [](\A o \in IDs : \A i \in 1..Len(log[o]) :
         LET e == log[o][i]
         IN  /\ e.OrderID = o
             /\ db[o] # NoRow
             /\ e.EventType \in { EventOrderCreated, EventOrderStatusChanged }
             /\ e.EventType = EventOrderCreated =>
                  /\ commits[o][1].kind = "create"
                  /\ e.Version = commits[o][1].version
                  /\ e.Status = commits[o][1].status
             /\ e.EventType = EventOrderStatusChanged =>
                  \E j \in 2..Len(commits[o]) :
                    /\ commits[o][j].kind = "update"
                    /\ commits[o][j].version = e.Version
                    /\ commits[o][j].status = e.NewStatus
                    /\ commits[o][j - 1].status = e.OldStatus)
  /\ [][ log' # log =>
           \E t \in Tasks :
             /\ task[t].pc = "publish" /\ task'[t].pc = "done"
             /\ task[t].err = ErrNone /\ task[t].wrote
             /\ log' = [ log EXCEPT ![task[t].id] = Append(@, log'[task[t].id][Len(log'[task[t].id])]) ] ]_vars
  /\ [](\A t \in Tasks :
         (task[t].pc \in { "publish", "done" } /\ task[t].err # ErrNone) =>
           /\ task[t].pc = "done"
           /\ ~task[t].pubErr)
  /\ [][ \A t \in Tasks :
           (task'[t].pc = "done" /\ task'[t].err # ErrNone /\ task[t].pc # "done") =>
             log' = log ]_vars

\* the log holds the created event and the status_changed event of the
\* winner of a race, while the loser has ended with ConcurrentModification
C35_Witness ==
  /\ Len(log[1]) = 2
  /\ log[1][1].EventType = EventOrderCreated
  /\ log[1][2].EventType = EventOrderStatusChanged
  /\ log[1][2].Version = 2
  /\ \E t \in Tasks :
       /\ Done(t, "UpdateOrderStatus")
       /\ task[t].err = ErrConcurrentModification
       /\ task[t].read.Version = 1

\* ------------------------------------------------- claims about soft delete
Mutations == { "UpdateOrder", "UpdateOrderStatus", "DeleteOrder" }

\* the commits of order o that are soft deletes
Deletes(o) == { i \in 1..Len(commits[o]) : commits[o][i].kind = "delete" }

\* C36: an order is soft-deleted at most once and no write follows the
\* delete; a finished DeleteOrder either succeeded and is that delete, or
\* failed with NotFound; a row is never removed and a deleted row never
\* changes; a table access of an UpdateOrder, UpdateOrderStatus or
\* DeleteOrder that finds the row deleted leaves the table alone and ends
\* the call with an error then or in its next step.
C36_SoftDeleteOnce ==
  /\ [](\A o \in IDs :
         /\ Cardinality(Deletes(o)) <= 1
         /\ \A i \in Deletes(o) : i = Len(commits[o])
         /\ (db[o] # NoRow /\ db[o].Deleted) <=> (Deletes(o) # { }))
  /\ [](\A t \in Tasks :
         Done(t, "DeleteOrder") =>
           \/ /\ task[t].err = ErrNone /\ task[t].wrote
              /\ \E i \in Deletes(task[t].id) : commits[task[t].id][i].task = t
           \/ task[t].err = ErrOrderNotFound /\ ~task[t].wrote)
  /\ [][ \A o \in IDs :
           db[o] # NoRow =>
             /\ db'[o] # NoRow
             /\ db[o].Deleted => db'[o] = db[o] ]_vars
  /\ [][ \A t \in Tasks :
           ( /\ task[t].pc \in { "called", "repo_update", "repo_exists", "del_delete" }
             /\ task'[t] # task[t]
             /\ task'[t].op \in Mutations
             /\ db[task'[t].id] # NoRow
             /\ db[task'[t].id].Deleted ) =>
             /\ db' = db
             /\ task'[t].pc \in { "done", "repo_exists" }
             /\ task'[t].pc = "repo_exists" => task[t].pc = "repo_update"
             /\ task'[t].pc = "done" =>
                  /\ task'[t].err \in { ErrOrderNotFound, ErrConcurrentModification }
                  /\ task'[t].ret = Nil ]_vars

\* two DeleteOrder calls both read the live order; one has deleted it and
\* the other has failed with NotFound
C36_Witness ==
  \E t, u \in Tasks :
    /\ Done(t, "DeleteOrder") /\ task[t].err = ErrNone /\ task[t].wrote
    /\ Done(u, "DeleteOrder") /\ task[u].err = ErrOrderNotFound
    /\ task[u].read # Nil
    /\ task[u].id = task[t].id
    /\ db[task[t].id].Deleted

\* ---------------------------------------------- claims about the version guard
\* C37: the order an UpdateOrder or UpdateOrderStatus hands to the update
\* carries the version the call read; the update succeeds only on a row of
\* that version, stores that version plus one, and the call returns the
\* order with that version plus one; a failed update leaves the table alone.
C37_GuardIsVersionRead ==
  /\ [][ \A t \in Tasks :
           ( task[t].pc = "repo_update" /\ task'[t] # task[t] ) =>
             LET id == task[t].id
                 v == task[t].read.Version
             IN  /\ task[t].order.Version = v
                 /\ task'[t].pc = "repo_exists" => db' = db
                 /\ task'[t].pc # "repo_exists" =>
                      /\ db[id].Version = v
                      /\ db'[id].Version = v + 1
                      /\ task'[t].order.Version = v + 1 ]_vars
  /\ [](\A t \in Tasks :
         ( task[t].pc = "done" /\ task[t].op \in Updates /\ task[t].err = ErrNone ) =>
           task[t].ret.Version = task[t].read.Version + 1)

\* an UpdateOrderStatus that read version 2 has returned version 3, and an
\* UpdateOrder by the other caller that read version 2 as well has failed
C37_Witness ==
  \E t, u \in Tasks :
    /\ Done(t, "UpdateOrderStatus") /\ task[t].err = ErrNone
    /\ task[t].read.Version = 2 /\ task[t].ret.Version = 3
    /\ Done(u, "UpdateOrder") /\ task[u].err = ErrConcurrentModification
    /\ task[u].read.Version = 2

\* ------------------------------------------------------ HTTP list pagination
defaultLimit == 20
maxLimit == 100

\* a query parameter: absent, not a number, or a number
NoParam == [ given |-> FALSE, numeric |-> FALSE, val |-> 0 ]
BadParam == [ given |-> TRUE, numeric |-> FALSE, val |-> 0 ]
IntParam(n) == [ given |-> TRUE, numeric |-> TRUE, val |-> n ]

\* parseIntParam: the default for an absent parameter and for one strconv.Atoi
\* rejects
parseIntParam(param, defaultVal) ==
  IF ~param.given \/ ~param.numeric THEN defaultVal ELSE param.val

\* OrderHandler.ListOrders: limit capped at maxLimit, then defaulted below 1
HttpLimit(q) ==
  LET parsed == parseIntParam(q.limit, defaultLimit)
      capped == IF parsed > maxLimit THEN maxLimit ELSE parsed
  IN  IF capped < 1 THEN defaultLimit ELSE capped

\* OrderHandler.ListOrders: offset raised to 0
HttpOffset(q) ==
  LET parsed == parseIntParam(q.offset, 0)
  IN  IF parsed < 0 THEN 0 ELSE parsed

\* OrderHandler.ListOrders: page := (offset / limit) + 1; pageSize := limit
HttpListOrdersRequest(q) ==
  ListOrdersRequest(WrapInt((HttpOffset(q) \div HttpLimit(q)) + 1), HttpLimit(q),
                    NoStatus, NoCustomer)

\* ListOrdersResponse for what the service returned
ListOrdersResponse(q, result) ==
  [ Orders |-> result.Data, Total |-> result.TotalCount,
    Limit |-> HttpLimit(q), Offset |-> HttpOffset(q) ]

\* the newest-first sequence of total orders, each named by its position
Positions(total) == [ i \in 1..total |-> i - 1 ]

HttpLimitInputs ==
  { NoParam, BadParam } \cup
  { IntParam(n) : n \in { 0 - 1, 0, 1, 2, 3, 5, 20, 100, 101, 150 } }

HttpOffsetInputs ==
  { NoParam, BadParam } \cup
  { IntParam(n) : n \in { 0 - 5, 0, 1, 2, 3, 4, 5, 6, 20, 25, 40 } }

\* GET /api/v1/orders?limit=..&offset=.. put once to a service over a
\* repository that holds total orders and answers as LIMIT / OFFSET do
AskHttpListOrders ==
  /\ probe = NoProbe
  /\ \E limit \in HttpLimitInputs, offset \in HttpOffsetInputs, total \in 0..MaxTotal :
       LET q == [ limit |-> limit, offset |-> offset ]
           req == HttpListOrdersRequest(q)
           opts == ListOptions(req)
           data == LimitOffset(Positions(total), opts.Limit, opts.Offset)
       IN  probe' = << [ query |-> q, req |-> req, opts |-> opts, total |-> total,
                         response |-> ListOrdersResponse(q,
                                        PaginatedOrders(req, data, total)) ] >>
  /\ UNCHANGED << db, cache, task, ncalls, hist, feed >>

NextHttpPaging == AskHttpListOrders

SpecHttpPaging == Init /\ [][NextHttpPaging]_vars

\* the limit and the offset the documentation gives a query with two numbers
WantedLimit(q) ==
  IF q.limit.val > 100 THEN 100
  ELSE IF q.limit.val < 1 THEN 20
  ELSE q.limit.val

WantedOffset(q) == IF q.offset.val < 0 THEN 0 ELSE q.offset.val

\* probe i is a list query that gives limit and offset as numbers
NumbersGiven(i) ==
  /\ "response" \in DOMAIN probe[i]
  /\ probe[i].query.limit.numeric
  /\ probe[i].query.offset.numeric

\* C38: the answer to GET /api/v1/orders?limit=L&offset=O holds the orders
\* at positions O .. O + L - 1 of the newest-first sequence, as far as it
\* goes, and echoes L and O, where a limit above 100 counts as 100, a limit
\* below 1 as 20 and a negative offset as 0.
C38_LimitOffsetWindow ==
  \A i \in 1..Len(probe) :
    NumbersGiven(i) =>
      LET q == probe[i].query
          L == WantedLimit(q)
          O == WantedOffset(q)
          r == probe[i].response
      IN  /\ r.Limit = L
          /\ r.Offset = O
          /\ r.Total = probe[i].total
          /\ r.Orders = [ k \in 1..(Min(O + L, probe[i].total) - Min(O, probe[i].total)) |->
                           O + k - 1 ]

\* ------------------------------------------------------ contention and progress
\* a step of the call task t is handling: a mutation of the stored order
MutationStep(t) ==
  \/ UpdateOrderStatus_Find(t)
  \/ UpdateOrder_Find(t)
  \/ RepoUpdate_Exec(t)
  \/ RepoUpdate_Exists(t)
  \/ UpdateOrderStatus_CacheDelete(t)
  \/ DeleteOrder_Find(t)
  \/ DeleteOrder_Delete(t)

\* the requests of a race
MaxRaceCalls == 3

\* a request of the race arrives
Arrive(t) == ncalls < MaxRaceCalls /\ Invoke(t)

\* concurrent mutations of one stored order
NextRace ==
  \/ \E t \in Tasks : Arrive(t)
  \/ \E t \in Tasks : UpdateOrderStatus_Find(t)
  \/ \E t \in Tasks : UpdateOrder_Find(t)
  \/ \E t \in Tasks : RepoUpdate_Exec(t)
  \/ \E t \in Tasks : RepoUpdate_Exists(t)
  \/ \E t \in Tasks : UpdateOrderStatus_CacheDelete(t)
  \/ \E t \in Tasks : DeleteOrder_Find(t)
  \/ \E t \in Tasks : DeleteOrder_Delete(t)

\* every request is handled by a goroutine of its own that the scheduler
\* keeps running, and every call on the database or the cache returns
SpecRace ==
  /\ InitSerial
  /\ [][NextRace]_vars
  /\ \A t \in Tasks : WF_vars(MutationStep(t))

\* the call of task t is an update that read the order at a version and
\* passed its checks, and its update has been answered
Contended(t) ==
  /\ task[t].op \in Updates
  /\ task[t].read # Nil
  /\ task[t].pc \in { "us_cachedel", "done" }
  /\ task[t].err \in { ErrNone, ErrConcurrentModification, ErrOrderNotFound }

\* C39 as stated: of the update calls that read an order at version v and
\* ask for a legal change, one succeeds: a call among them whose update has
\* been answered either made version v + 1 itself or has lost to another
\* update that made it; and every call that has arrived ends.
C39_SomeUpdateWins ==
  /\ [](\A t \in Tasks :
         Contended(t) =>
           LET o == task[t].id
               v == task[t].read.Version
           IN  /\ Len(commits[o]) >= v + 1
               /\ commits[o][v + 1].version = v + 1
               /\ commits[o][v + 1].kind = "update"
               /\ (commits[o][v + 1].task = t) <=> (task[t].err = ErrNone))
  /\ \A t \in Tasks : (task[t].pc = "called") ~> (task[t].pc = "done")

\* C39 (amended): of the update calls that read an order at version v and
\* ask for a legal change, one succeeds unless a soft delete is committed
\* to version v first: a call among them whose update has been answered
\* either made version v + 1 itself, or has failed with
\* ConcurrentModification against the one write, an update or a soft
\* delete, that made version v + 1; and every call that has arrived ends.
C39_SomeWriteWins ==
  /\ [](\A t \in Tasks :
         Contended(t) =>
           LET o == task[t].id
               v == task[t].read.Version
           IN  /\ Len(commits[o]) >= v + 1
               /\ commits[o][v + 1].version = v + 1
               /\ task[t].err \in { ErrNone, ErrConcurrentModification }
               /\ (commits[o][v + 1].task = t /\ commits[o][v + 1].kind = "update")
                    <=> (task[t].err = ErrNone)
               /\ commits[o][v + 1].kind = "delete" =>
                    task[t].err = ErrConcurrentModification)
  /\ \A t \in Tasks : (task[t].pc = "called") ~> (task[t].pc = "done")

\* two update calls read version 2; one has made version 3 and the other has
\* failed with ConcurrentModification
C39_Witness ==
  \E t, u \in Tasks :
    /\ Contended(t) /\ Contended(u)
    /\ task[t].pc = "done" /\ task[u].pc = "done"
    /\ task[t].id = task[u].id
    /\ task[t].read.Version = 2 /\ task[u].read.Version = 2
    /\ task[t].err = ErrNone
    /\ task[u].err = ErrConcurrentModification
    /\ commits[task[t].id][3].task = t

====
